---- MODULE Spec2Model ----
(***************************************************************************)
(* A model of the Twinkly client of twinkly-shaders.                       *)
(*                                                                         *)
(* The program runs on a JavaScript event loop: a handler (a timer firing, *)
(* an HTTP response arriving, a call from the top level) runs until every  *)
(* continuation it made ready has reached its next wait for I/O.  One      *)
(* action of this model is one such turn.  An `await` on a promise that is *)
(* already resolved, or that the same turn resolves (the mutex's           *)
(* waitForUnlock on release), continues inside the turn.                   *)
(***************************************************************************)
EXTENDS Integers, Sequences, FiniteSets, TLC

(***************************************************************************)
(* Bounds of the model.                                                    *)
(***************************************************************************)
\* Number of calls of public operations made on the one Twinkly object.
NumTasks == 2

Tasks == 1..NumTasks

\* Number of runs of RealtimeTwinkly.init: the one at startup and the firings
\* of its keep-alive interval.
NumRuns == 3

Runs == 1..NumRuns

\* Number of frames handed to sendFrame.
MaxFrames == 2

\* Number of sends the socket fails.
MaxSendFailures == 1

Min(a, b) == IF a < b THEN a ELSE b

Max(a, b) == IF a > b THEN a ELSE b

(***************************************************************************)
(* Base64.  A token string is a sequence of base64 characters, each given  *)
(* by its 6-bit value; 64 stands for the padding character "=".            *)
(***************************************************************************)
PadChar == 64

\* Number of "=" at the end of s (0, 1 or 2 in a well-formed string).
Padding(s) ==
    IF Len(s) >= 2 /\ s[Len(s)] = PadChar /\ s[Len(s) - 1] = PadChar THEN 2
    ELSE IF Len(s) >= 1 /\ s[Len(s)] = PadChar THEN 1
    ELSE 0

\* The sextet at 0-based position p, "=" read as 0 bits.
Sextet(s, p) == IF s[p + 1] = PadChar THEN 0 ELSE s[p + 1]

\* Uint8Array.from(atob(s), c => c.charCodeAt(0)): four characters give
\* three bytes, a padded group one byte fewer per "=".
Atob(s) ==
    [j \in 1..((Len(s) \div 4) * 3 - Padding(s)) |->
        LET g == ((j - 1) \div 3) * 4
            k == (j - 1) % 3
        IN  IF k = 0 THEN Sextet(s, g) * 4 + Sextet(s, g + 1) \div 16
            ELSE IF k = 1
                 THEN (Sextet(s, g + 1) % 16) * 16 + Sextet(s, g + 2) \div 4
                 ELSE (Sextet(s, g + 2) % 4) * 64 + Sextet(s, g + 3)]

(***************************************************************************)
(* The device.  Its n-th successful login answers with a token of its own  *)
(* that differs from the tokens of the other logins: eight random bytes,   *)
(* base64 encoded (twelve characters, the last one "=").                   *)
(***************************************************************************)
DeviceToken(n) ==
    [i \in 1..12 |-> IF i = 12 THEN PadChar
                     ELSE IF i = 11 THEN ((n * 7 + 3) % 16) * 4
                     ELSE (n * 17 + i * 5) % 64]

\* atob(s) throws InvalidCharacterError: with a length that is a multiple
\* of 4 up to two "=" at the end are dropped, and what remains must have a
\* length that is not 1 more than a multiple of 4 and hold no "=".
AtobThrows(s) ==
    LET data == IF Len(s) % 4 = 0 THEN SubSeq(s, 1, Len(s) - Padding(s))
                ELSE s
    IN  \/ Len(data) % 4 = 1
        \/ \E i \in DOMAIN data : data[i] = PadChar

\* An authentication_token that is not base64: nine characters.
UndecodableToken == [i \in 1..9 |-> (i * 11) % 64]

\* What the gestalt endpoint may answer (number_of_led, bytes_per_led,
\* frame_rate).
Gestalts ==
    { [number_of_led |-> 250, bytes_per_led |-> 3, frame_rate |-> 20],
      [number_of_led |-> 400, bytes_per_led |-> 4, frame_rate |-> 25] }

\* How an HTTP exchange can end: a 2xx answer, a 401, another error status,
\* or no response at all (the device is unreachable).
Outcomes == {"ok", "401", "status", "noresp"}

VARIABLES
    authToken,          \* Twinkly.authToken
    authTokenBuffer,    \* Twinkly.authTokenBuffer
    numberOfLeds,       \* Twinkly.numberOfLeds
    bytesPerLed,        \* Twinkly.bytesPerLed
    frameRate,          \* Twinkly.frameRate
    udpClient,          \* Twinkly.udpClient: 0 is null, n > 0 the n-th socket
    initialized,        \* Twinkly.initialized
    loggingInLock,      \* Twinkly.loggingInLock: TRUE when the mutex is held
    keepAlive,          \* TRUE once initRealtime has set its interval timer
    task,               \* the calls in progress, one record per task
    devLogins,          \* device: number of logins answered with a token
    nLogins,            \* number of login requests sent so far
    exchange,           \* the last login/verify exchange: how it stands, and
                        \* the token and buffer of the session when it began
    sockets,            \* OS: the sockets opened so far, each "open"/"closed"
    lastBrightness      \* Twinkly.lastBrightness

VARIABLES
    legacy              \* the single-file program around class RealtimeTwinkly

VARIABLES
    frameNo,            \* number of calls of sendFrame so far
    sfa,                \* the last call of sendFrame: its frame, whether
                        \* frameToBytes threw, the bytes it returned
    log                 \* the calls of sendFrameFragment, in order

VARIABLES
    ctl                 \* the main program around the Twinkly object: its
                        \* module variables, its tween, its timers, the
                        \* clock, and the last HTTP response it gave

VARIABLES
    device              \* the device, as far as the requests on its mode
                        \* and its brightness go

frameVars == <<frameNo, sfa, log>>

sessionVars ==
    <<authToken, authTokenBuffer, numberOfLeds, bytesPerLed, frameRate,
      udpClient, initialized, loggingInLock, keepAlive, task, devLogins,
      nLogins, exchange, sockets, lastBrightness>>

(***************************************************************************)
(* A task is one call of a public operation.                               *)
(*   kind   the operation: "initRealtime", "initMovies", "keepAlive" (one  *)
(*          firing of the interval timer), "setMode", "getMode",           *)
(*          "setBrightness"                                                *)
(*   pc     where the call waits:                                          *)
(*            "req_wait"     req, at waitForUnlock, lock held              *)
(*            "req_await"    req, at axios(...)                            *)
(*            "lv_wait"      loginAndVerify, at waitForUnlock              *)
(*            "login_await"  loginAndVerify, at req("/xled/v1/login")      *)
(*            "verify_await" loginAndVerify, at req("/xled/v1/verify")     *)
(*            "done" returned, "threw" ended by an exception               *)
(*   path   the path of the req call in progress ("gestalt", "mode",       *)
(*          "brightness")                                                  *)
(*   retry  req's failIfNoAuth argument                                    *)
(*   hdr    the X-Auth-Token header of the request in flight               *)
(*   lvFrom who called loginAndVerify: "init" or "req"                     *)
(*   arg    the argument of setBrightness, in thousandths                  *)
(*   value  the local variable value of setBrightness: the value field of  *)
(*          the body of its brightness request                             *)
(* and, recording what happened (read by the properties only):             *)
(*   sent     the paths of the requests this task has sent, in order       *)
(*   nSend    how often the req call in progress has sent its request      *)
(*   nLv      how often the req call in progress has called loginAndVerify *)
(*   n401     how many 401 answers the req call in progress has received   *)
(*   fin      the same three numbers, and the result, of the last req call *)
(*            of this task that returned                                   *)
(*   nLogin   how many login requests the req call in progress has sent    *)
(*   busy     whether a login/verify exchange of another task was in       *)
(*            flight when this task's req called loginAndVerify            *)
(*   issued   the token the device gave to the login of this task's        *)
(*            exchange in progress (<<>> when it gave none)                *)
(*   waitTok  the token the device gave to the login of the exchange this  *)
(*            task waited for (<<>> when it gave none)                     *)
(*   exAtWait, exAtRetry  nLogins when this task's req called              *)
(*            loginAndVerify, and when it sent its retry                   *)
(***************************************************************************)
NoCall ==
    [path |-> "none", nSend |-> 0, nLv |-> 0, n401 |-> 0, nLogin |-> 0,
     result |-> "none"]

IdleTask ==
    [kind |-> "none", pc |-> "idle", path |-> "none", retry |-> FALSE,
     hdr |-> <<>>, lvFrom |-> "none", sent |-> <<>>, nSend |-> 0, nLv |-> 0,
     n401 |-> 0, nLogin |-> 0, fin |-> NoCall, busy |-> FALSE,
     issued |-> <<>>, waitTok |-> <<>>, exAtWait |-> 0, exAtRetry |-> 0,
     arg |-> 0, value |-> 0]

\* No call of sendFrame has been made.
NoSend ==
    [input |-> <<>>, threw |-> FALSE, frame |-> <<>>]

\* The single-file program before its first statement.
NoLegacy ==
    [authToken |-> <<>>, authTokenBuffer |-> <<>>, numberOfLeds |-> -1,
     bytesPerLed |-> -1, frameRate |-> -1, udpClient |-> 0, sockets |-> <<>>,
     timer |-> FALSE, crashed |-> FALSE, devLogins |-> 0,
     run |-> [n \in Runs |-> [pc |-> "idle", sent |-> <<>>]]]

(***************************************************************************)
(* The tween scheduler (TweenManager, Tweener, Easing).  A value, and the  *)
(* fraction of a transition that has elapsed, are numbers in thousandths;  *)
(* times are in milliseconds.  A tweener is a slot                         *)
(*   current    the value of the tween                                     *)
(*   start, target, startTime, duration   the transition begun last        *)
(*   running    TRUE while that transition is in progress                  *)
(***************************************************************************)
\* newTweener(callback, initial): a slot holding current = initial.
NewTweener(initial) ==
    [current |-> initial, start |-> initial, target |-> initial,
     startTime |-> 0, duration |-> 0, running |-> FALSE]

\* tween(target, duration, easing) at time now: a transition from the
\* current value of the slot to target, replacing the one in progress.
TweenFromTarget(tw, target, duration, now) ==
    [tw EXCEPT !.start = tw.target, !.target = target, !.startTime = now,
               !.duration = duration, !.running = TRUE]

Tween(tw, target, duration, now) ==
    [tw EXCEPT !.start = tw.current, !.target = target, !.startTime = now,
               !.duration = duration, !.running = TRUE]

\* Easing.Out, an ease-out curve from [0, 1] onto [0, 1]: 1 - (1 - t)^2.
EaseOut(t) == (t * (2000 - t)) \div 1000

\* t = clamp((now - start) / duration, 0, 1)
FractionUnclamped(tw, now) ==
    ((now - tw.startTime) * 1000) \div tw.duration

Fraction(tw, now) ==
    Min(Max(((now - tw.startTime) * 1000) \div tw.duration, 0), 1000)

\* The linear interpolation between a and b at t.
Interpolate(a, b, t) == a + ((b - a) * t) \div 1000

\* update() at time now, for one slot: a slot in progress gets the value
\* interpolated at the eased fraction, the callback is called with it
\* (fired), and the transition is complete once the fraction has reached 1;
\* a slot not in progress is left alone.
Update(tw, now) ==
    IF tw.running
    THEN LET t == Fraction(tw, now)
             value == Interpolate(tw.start, tw.target, EaseOut(t))
         IN  [tweener |-> [tw EXCEPT !.current = value,
                                     !.running = (t < 1000)],
              fired |-> TRUE, value |-> value]
    ELSE [tweener |-> tw, fired |-> FALSE, value |-> tw.current]

(***************************************************************************)
(* The device, for the requests of setBrightness.  Fields of device:       *)
(*   mode        the mode it is in: "off", "movie" or "rt"                 *)
(*   brightness  the percentage it was last set to, -1 while it has what   *)
(*               it had before the program started                         *)
(* and, read by the properties only:                                       *)
(*   modeSent    the mode of the last POST on the mode path sent to it     *)
(*               ("none" before the first)                                 *)
(*   refused     TRUE once a request was not answered with a 2xx status    *)
(***************************************************************************)
\* The device is not modelled.
NoDevice ==
    [mode |-> "off", brightness |-> -1, modeSent |-> "none",
     refused |-> FALSE]

\* No main program is modelled.
NoControl ==
    [program |-> "none", active |-> FALSE, opacity |-> 1000,
     opacityTweener |-> NewTweener(1000), now |-> 0,
     currentlySettingBrightness |-> FALSE,
     currentlySettingBrightnessReqId |-> 0, timers |-> {},
     by |-> [t \in Tasks |-> "none"], crashed |-> FALSE,
     nHttp |-> 0, resp |-> [method |-> "none", body |-> "none",
                            status |-> 0, json |-> <<>>],
     delivered |-> -1, deliveredAt |-> -1, deliveredSince |-> FALSE,
     atRetrigger |-> -1, midFlight |-> FALSE]

Init ==
    /\ authToken = <<>>
    /\ authTokenBuffer = <<>>
    /\ numberOfLeds = -1
    /\ bytesPerLed = -1
    /\ frameRate = -1
    /\ udpClient = 0
    /\ initialized = FALSE
    /\ loggingInLock = FALSE
    /\ keepAlive = FALSE
    /\ task = [t \in Tasks |-> IdleTask]
    /\ devLogins = 0
    /\ nLogins = 0
    /\ exchange = [state |-> "none", authToken |-> <<>>,
                   authTokenBuffer |-> <<>>]
    /\ sockets = <<>>
    /\ lastBrightness = -1
    /\ frameNo = 0
    /\ sfa = NoSend
    /\ log = <<>>
    /\ legacy = NoLegacy
    /\ ctl = NoControl
    /\ device = NoDevice

(***************************************************************************)
(* Twinkly.req and Twinkly.loginAndVerify, as operators on a task record.  *)
(***************************************************************************)
\* The counters of a new req call.
NewCall(r) ==
    [r EXCEPT !.retry = FALSE, !.nSend = 0, !.nLv = 0, !.n401 = 0,
              !.nLogin = 0, !.busy = FALSE]

\* What a req call that returned leaves in fin.
Finished(r, result) ==
    [r EXCEPT !.fin = [path |-> r.path, nSend |-> r.nSend, nLv |-> r.nLv,
                       n401 |-> r.n401, nLogin |-> r.nLogin,
                       result |-> result]]

\* A call that has ended keeps its kind, what it sent and how its last req
\* call went; its locals are gone.
Ended(r, how) ==
    [IdleTask EXCEPT !.kind = r.kind, !.pc = how, !.sent = r.sent,
                     !.fin = r.fin]

\* req, after waitForUnlock: config.headers["X-Auth-Token"] = this.authToken
\* and axios(...) is called.
SendReq(r, p, failIfNoAuth, tok) ==
    [r EXCEPT !.pc = "req_await", !.path = p, !.retry = failIfNoAuth,
              !.hdr = tok, !.sent = Append(@, p), !.nSend = @ + 1,
              !.exAtRetry = IF failIfNoAuth THEN nLogins ELSE @]

\* req on a path that is neither /login nor /verify: it waits while the lock
\* is held, and sends at once when it is free.
Req(r, p, failIfNoAuth, locked, tok) ==
    IF locked
    THEN [r EXCEPT !.pc = "req_wait", !.path = p, !.retry = failIfNoAuth]
    ELSE SendReq(r, p, failIfNoAuth, tok)

\* Mutex.isLocked() of loggingInLock.
IsLockedNever(lock) == FALSE

IsLocked(lock) == lock

\* The condition under which req re-authenticates and retries: the negation
\* of (status != 401 || isLoginReq || failIfNoAuth).
RetriesAlways(status, isLoginReq, failIfNoAuth) ==
    ~(status # "401" \/ isLoginReq)

Retries(status, isLoginReq, failIfNoAuth) ==
    ~(status # "401" \/ isLoginReq \/ failIfNoAuth)

\* Some task is between sending its login request and the end of its verify
\* request.
ExchangeInFlight ==
    \E u \in Tasks : task[u].pc \in {"login_await", "verify_await"}

\* loginAndVerify up to its first wait: with the lock held it waits for the
\* unlock; otherwise it acquires the lock and sends the login request
\* (req on /login does not wait for the lock).
LoginAndVerify(r, from, locked, tok) ==
    LET r1 == [r EXCEPT !.lvFrom = from,
                        !.nLv = IF from = "req" THEN @ + 1 ELSE @,
                        !.busy = IF from = "req" THEN ExchangeInFlight
                                 ELSE @,
                        !.exAtWait = nLogins]
    IN  IF IsLocked(locked)
        THEN [r1 EXCEPT !.pc = "lv_wait"]
        ELSE [r1 EXCEPT !.pc = "login_await", !.hdr = tok, !.issued = <<>>,
                        !.sent = Append(@, "login"), !.nLogin = @ + 1]

\* The continuation of `await this.loginAndVerify()`: init goes on to
\* getInfo, req retries its request with failIfNoAuth = true.
AfterLoginAndVerify(r, locked, tok) ==
    IF r.lvFrom = "init"
    THEN Req(NewCall(r), "gestalt", FALSE, locked, tok)
    ELSE Req(r, r.path, TRUE, locked, tok)

\* Task t calls loginAndVerify.
CallLoginAndVerifyNoAcquire(t, r, from) ==
    /\ task' = [task EXCEPT
                  ![t] = LoginAndVerify(r, from, loggingInLock, authToken)]
    /\ nLogins' = IF IsLocked(loggingInLock) THEN nLogins ELSE nLogins + 1
    /\ exchange' = IF IsLocked(loggingInLock) THEN exchange
                   ELSE [state |-> "login", authToken |-> authToken,
                         authTokenBuffer |-> authTokenBuffer]
    /\ UNCHANGED loggingInLock

CallLoginAndVerify(t, r, from) ==
    /\ task' = [task EXCEPT
                  ![t] = LoginAndVerify(r, from, loggingInLock, authToken)]
    /\ nLogins' = IF IsLocked(loggingInLock) THEN nLogins ELSE nLogins + 1
    /\ exchange' = IF IsLocked(loggingInLock) THEN exchange
                   ELSE [state |-> "login", authToken |-> authToken,
                         authTokenBuffer |-> authTokenBuffer]
    /\ loggingInLock' = TRUE

\* release() at the end of loginAndVerify of task t, and the rest of the
\* turn: the lock is free, every waitForUnlock is resolved, t's caller and
\* every waiter continue to their next request.  iss is the token the device
\* gave to the login of this exchange.
Release(t, tok, iss) ==
    /\ loggingInLock' = FALSE
    /\ task' = [u \in Tasks |->
                  IF u = t THEN AfterLoginAndVerify(task[t], FALSE, tok)
                  ELSE IF task[u].pc = "req_wait"
                  THEN SendReq(task[u], task[u].path, task[u].retry, tok)
                  ELSE IF task[u].pc = "lv_wait"
                  THEN AfterLoginAndVerify(
                           [task[u] EXCEPT !.waitTok = iss], FALSE, tok)
                  ELSE task[u]]

(***************************************************************************)
(* The calls of public operations.                                         *)
(***************************************************************************)
StartupCalled ==
    \E u \in Tasks : task[u].kind \in {"initRealtime", "initMovies"}

\* The calls are numbered in the order in which they are made.
CanStart(t) ==
    /\ task[t].pc = "idle"
    /\ \A u \in Tasks : u < t => task[u].pc # "idle"

\* initRealtime(): returns when initialized, else awaits init(), which calls
\* loginAndVerify and then getInfo.
InitRealtime(t) ==
    /\ CanStart(t)
    /\ ~StartupCalled
    /\ LET r == [task[t] EXCEPT !.kind = "initRealtime"] IN
         IF initialized
         THEN /\ task' = [task EXCEPT ![t] = Ended(r, "done")]
              /\ UNCHANGED <<loggingInLock, nLogins, exchange>>
         ELSE CallLoginAndVerify(t, r, "init")
    /\ UNCHANGED <<authToken, authTokenBuffer, numberOfLeds, bytesPerLed,
                   frameRate, udpClient, initialized, keepAlive, devLogins,
                   sockets,
                   lastBrightness>>

\* initMovies(false): awaits init().
InitMovies(t) ==
    /\ CanStart(t)
    /\ ~StartupCalled
    /\ LET r == [task[t] EXCEPT !.kind = "initMovies"] IN
         IF initialized
         THEN /\ task' = [task EXCEPT ![t] = Ended(r, "done")]
              /\ UNCHANGED <<loggingInLock, nLogins, exchange>>
         ELSE CallLoginAndVerify(t, r, "init")
    /\ UNCHANGED <<authToken, authTokenBuffer, numberOfLeds, bytesPerLed,
                   frameRate, udpClient, initialized, keepAlive, devLogins,
                   sockets,
                   lastBrightness>>

\* One firing of the keep-alive interval of initRealtime:
\* await this.init(); await this.setMode("rt").
KeepAliveTick(t) ==
    /\ CanStart(t)
    /\ keepAlive
    /\ LET r == [task[t] EXCEPT !.kind = "keepAlive"] IN
         IF initialized
         THEN /\ task' = [task EXCEPT
                   ![t] = Req(NewCall(r), "mode", FALSE, loggingInLock,
                              authToken)]
              /\ UNCHANGED <<loggingInLock, nLogins, exchange>>
         ELSE CallLoginAndVerify(t, r, "init")
    /\ UNCHANGED <<authToken, authTokenBuffer, numberOfLeds, bytesPerLed,
                   frameRate, udpClient, initialized, keepAlive, devLogins,
                   sockets,
                   lastBrightness>>

\* setMode(mode), for any caller and any mode.
SetMode(t) ==
    /\ CanStart(t)
    /\ task' = [task EXCEPT
          ![t] = Req(NewCall([task[t] EXCEPT !.kind = "setMode"]), "mode",
                     FALSE, loggingInLock, authToken)]
    /\ UNCHANGED <<authToken, authTokenBuffer, numberOfLeds, bytesPerLed,
                   frameRate, udpClient, initialized, loggingInLock,
                   keepAlive, devLogins, nLogins, exchange, sockets,
                   lastBrightness>>

\* getMode(): a GET request on the mode path.
GetMode(t) ==
    /\ CanStart(t)
    /\ task' = [task EXCEPT
          ![t] = Req(NewCall([task[t] EXCEPT !.kind = "getMode"]), "mode",
                     FALSE, loggingInLock, authToken)]
    /\ UNCHANGED <<authToken, authTokenBuffer, numberOfLeds, bytesPerLed,
                   frameRate, udpClient, initialized, loggingInLock,
                   keepAlive, devLogins, nLogins, exchange, sockets,
                   lastBrightness>>

\* Fractions are numbers given in thousandths: 295 is 0.295, 1000 is 1.
\* clamp(n, min, max) is Math.min(Math.max(n, min), max).
ClampFromBelow(n, min, max) == Max(n, min)

Clamp(n, min, max) == Min(Max(n, min), max)

\* Math.floor of a number given in thousandths.
MathFloor(x) == x \div 1000

\* The arguments setBrightness is called with in this model:
\* -0.5, 0, 0.295, 0.999 and 1.5.
BrightnessArgs == {-500, 0, 295, 999, 1500}

\* setBrightness(v), up to its first request: value is computed from v;
\* with value 0 and lastBrightness not 0 it calls setMode("off"), with
\* value above 0 and lastBrightness 0 it calls setMode("movie"), and
\* otherwise it sends the brightness request at once.
SetBrightness(t, v) ==
    /\ CanStart(t)
    /\ LET value == MathFloor(Clamp(v, 0, 1000) * 100)
           r == NewCall([task[t] EXCEPT !.kind = "setBrightness",
                                        !.arg = v, !.value = value])
       IN  task' = [task EXCEPT
              ![t] = IF \/ value = 0 /\ lastBrightness # 0
                        \/ value > 0 /\ lastBrightness = 0
                     THEN Req(r, "mode", FALSE, loggingInLock, authToken)
                     ELSE Req(r, "brightness", FALSE, loggingInLock,
                              authToken)]
    /\ UNCHANGED <<authToken, authTokenBuffer, numberOfLeds, bytesPerLed,
                   frameRate, udpClient, initialized, loggingInLock,
                   keepAlive, devLogins, nLogins, exchange, sockets,
                   lastBrightness>>

(***************************************************************************)
(* The HTTP exchanges ending.                                              *)
(***************************************************************************)
\* The req call of task t returns to getInfo with the device's answer g.
GetInfoReturns(t, r, g) ==
    /\ numberOfLeds' = g.number_of_led
    /\ bytesPerLed' = g.bytes_per_led
    /\ frameRate' = g.frame_rate
    /\ initialized' = TRUE
    /\ task' = [task EXCEPT
          ![t] = IF r.kind = "initMovies" THEN Ended(r, "done")
                 ELSE Req(NewCall(r), "mode", FALSE, loggingInLock,
                          authToken)]
    /\ UNCHANGED <<authToken, authTokenBuffer, udpClient, loggingInLock,
                   keepAlive, devLogins, nLogins, exchange, sockets,
                   lastBrightness>>

\* Whether the caller of setMode("rt") goes on to replace the socket:
\* initRealtime does, the keep-alive callback (init, setMode) and a plain
\* setMode do not.
ReplacesSocketAlways(kind) == kind \in {"initRealtime", "keepAlive"}

ReplacesSocket(kind) == kind = "initRealtime"

\* The req call of task t returns to setMode, and setMode to its caller.
\* initRealtime goes on: it closes the socket it has, opens a new one, and
\* sets the keep-alive interval.
SetModeReturns(t, r) ==
    /\ task' = [task EXCEPT ![t] = Ended(r, "done")]
    /\ IF ReplacesSocket(r.kind)
       THEN /\ sockets' = Append([i \in DOMAIN sockets |->
                                    IF i = udpClient THEN "closed"
                                    ELSE sockets[i]], "open")
            /\ udpClient' = Len(sockets) + 1
            /\ initialized' = TRUE
            /\ keepAlive' = TRUE
       ELSE UNCHANGED <<sockets, udpClient, initialized, keepAlive>>
    /\ UNCHANGED <<authToken, authTokenBuffer, numberOfLeds, bytesPerLed,
                   frameRate, loggingInLock, devLogins, nLogins, exchange,
                   lastBrightness>>

\* The req call of task t returns to getMode, which returns res.mode; when
\* req returned undefined, reading res.mode throws.
GetModeReturns(t, r) ==
    /\ task' = [task EXCEPT
          ![t] = Ended(r, IF r.fin.result = "ok" THEN "done" ELSE "threw")]
    /\ UNCHANGED <<authToken, authTokenBuffer, numberOfLeds, bytesPerLed,
                   frameRate, udpClient, initialized, loggingInLock,
                   keepAlive, devLogins, nLogins, exchange, sockets,
                   lastBrightness>>

\* A req call of setBrightness returns (data or undefined).  After
\* setMode("off") lastBrightness is set and setBrightness returns; after
\* setMode("movie") the brightness request is sent; after the brightness
\* request lastBrightness is set and setBrightness returns.
SetBrightnessContinues(t, r) ==
    /\ IF r.path = "mode" /\ r.value > 0
       THEN /\ task' = [task EXCEPT
                   ![t] = Req(NewCall(r), "brightness", FALSE,
                              loggingInLock, authToken)]
            /\ UNCHANGED lastBrightness
       ELSE /\ task' = [task EXCEPT ![t] = Ended(r, "done")]
            /\ lastBrightness' = r.value
    /\ UNCHANGED <<authToken, authTokenBuffer, numberOfLeds, bytesPerLed,
                   frameRate, udpClient, initialized, loggingInLock,
                   keepAlive, devLogins, nLogins, exchange, sockets>>

\* The req call of task t on a path other than gestalt returns to its
\* caller.
ReqReturns(t, r) ==
    IF r.kind = "getMode" THEN GetModeReturns(t, r)
    ELSE IF r.kind = "setBrightness" THEN SetBrightnessContinues(t, r)
    ELSE SetModeReturns(t, r)

\* The request of task t on path "gestalt", "mode" or "brightness" ends
\* with outcome o.
ReqResponse(t, o) ==
    /\ task[t].pc = "req_await"
    /\ LET r0 == task[t]
           r  == [r0 EXCEPT !.n401 = IF o = "401" THEN @ + 1 ELSE @]
       IN
       IF o = "ok"
       THEN \* return res.data
            IF r.path = "gestalt"
            THEN \E g \in Gestalts : GetInfoReturns(t, Finished(r, "ok"), g)
            ELSE ReqReturns(t, Finished(r, "ok"))
       ELSE IF o = "noresp"
       THEN \* error.response is undefined: the catch block throws
            /\ task' = [task EXCEPT
                   ![t] = Ended(Finished(r, "threw"), "threw")]
            /\ UNCHANGED <<authToken, authTokenBuffer, numberOfLeds,
                           bytesPerLed, frameRate, udpClient, initialized,
                           loggingInLock, keepAlive, devLogins, nLogins,
                           exchange, sockets,
                   lastBrightness>>
       ELSE IF Retries(o, FALSE, r.retry)
       THEN \* await this.loginAndVerify()
            /\ CallLoginAndVerify(t, r, "req")
            /\ UNCHANGED <<authToken, authTokenBuffer, numberOfLeds,
                           bytesPerLed, frameRate, udpClient, initialized,
                           keepAlive, devLogins, sockets,
                   lastBrightness>>
       ELSE \* console.error("Failed ..."); return
            IF r.path = "gestalt"
            THEN \* getInfo reads data.number_of_led of undefined
                 /\ task' = [task EXCEPT
                        ![t] = Ended(Finished(r, "failed"), "threw")]
                 /\ UNCHANGED <<authToken, authTokenBuffer, numberOfLeds,
                                bytesPerLed, frameRate, udpClient,
                                initialized, loggingInLock, keepAlive,
                                devLogins, nLogins, exchange, sockets,
                   lastBrightness>>
            ELSE ReqReturns(t, Finished(r, "failed"))

\* The login request of task t ends with outcome o.  With a 2xx answer the
\* token is stored, decoded, and the verify request is sent.  Otherwise req
\* returns undefined (or throws), reading loginData.authentication_token
\* throws, the catch block logs, and the lock is released.
LoginResponseNoCatch(t, o) ==
    /\ task[t].pc = "login_await"
    /\ IF o = "ok"
       THEN /\ devLogins' = devLogins + 1
            /\ authToken' = DeviceToken(devLogins')
            /\ authTokenBuffer' = Atob(authToken')
            /\ task' = [task EXCEPT
                   ![t] = [@ EXCEPT !.pc = "verify_await",
                                    !.hdr = authToken',
                                    !.issued = authToken',
                                    !.sent = Append(@, "verify")]]
            /\ exchange' = [exchange EXCEPT !.state = "verify"]
            /\ UNCHANGED loggingInLock
       ELSE /\ task' = [task EXCEPT ![t] = Ended(task[t], "threw")]
            /\ exchange' = [exchange EXCEPT !.state = "login failed"]
            /\ UNCHANGED <<authToken, authTokenBuffer, devLogins,
                           loggingInLock>>
    /\ UNCHANGED <<numberOfLeds, bytesPerLed, frameRate, udpClient,
                   initialized, keepAlive, nLogins, sockets,
                   lastBrightness>>

LoginResponse(t, o) ==
    /\ task[t].pc = "login_await"
    /\ IF o = "ok"
       THEN /\ devLogins' = devLogins + 1
            /\ authToken' = DeviceToken(devLogins')
            /\ authTokenBuffer' = Atob(authToken')
            /\ task' = [task EXCEPT
                   ![t] = [@ EXCEPT !.pc = "verify_await",
                                    !.hdr = authToken',
                                    !.issued = authToken',
                                    !.sent = Append(@, "verify")]]
            /\ exchange' = [exchange EXCEPT !.state = "verify"]
            /\ UNCHANGED loggingInLock
       ELSE /\ Release(t, authToken, <<>>)
            /\ exchange' = [exchange EXCEPT !.state = "login failed"]
            /\ UNCHANGED <<authToken, authTokenBuffer, devLogins>>
    /\ UNCHANGED <<numberOfLeds, bytesPerLed, frameRate, udpClient,
                   initialized, keepAlive, nLogins, sockets,
                   lastBrightness>>

\* The verify request of task t ends with outcome o: req returns (data or
\* undefined) or throws into the catch block; either way release() follows.
VerifyResponse(t, o) ==
    /\ task[t].pc = "verify_await"
    /\ Release(t, authToken, task[t].issued)
    /\ exchange' = [exchange EXCEPT
                      !.state = IF o = "ok" THEN "ok" ELSE "verify failed"]
    /\ UNCHANGED <<authToken, authTokenBuffer, numberOfLeds, bytesPerLed,
                   frameRate, udpClient, initialized, keepAlive, devLogins,
                   nLogins, sockets,
                   lastBrightness>>

\* The login request of task t gets a 2xx answer whose
\* authentication_token is not base64: the token is stored, atob throws
\* before authTokenBuffer is assigned, the catch block logs, and the lock
\* is released.  No verify request is sent.
LoginResponseUndecodable(t) ==
    /\ task[t].pc = "login_await"
    /\ AtobThrows(UndecodableToken)
    /\ authToken' = UndecodableToken
    /\ Release(t, authToken', UndecodableToken)
    /\ exchange' = [exchange EXCEPT !.state = "decode failed"]
    /\ UNCHANGED <<authTokenBuffer, numberOfLeds, bytesPerLed, frameRate,
                   udpClient, initialized, keepAlive, devLogins, nLogins,
                   sockets, lastBrightness>>

(***************************************************************************)
(* What the device makes of the requests on its mode and its brightness.   *)
(* It carries out a request when it answers it with a 2xx status; a        *)
(* request it answers otherwise, or does not answer, changes nothing.      *)
(***************************************************************************)
\* The mode in the body of the POST on the mode path that the call r makes:
\* initRealtime and the keep-alive call setMode("rt"), setBrightness calls
\* setMode("off") with value 0 and setMode("movie") otherwise.
ModeCommand(r) ==
    IF r.kind \in {"initRealtime", "keepAlive"} THEN "rt"
    ELSE IF r.value = 0 THEN "off"
    ELSE "movie"

\* Task t sends a POST on the mode path in this step.
SendsMode(t) ==
    /\ task'[t].pc = "req_await"
    /\ task'[t].path = "mode"
    /\ task'[t].kind # "getMode"
    /\ Len(task'[t].sent) = Len(task[t].sent) + 1

\* modeSent after this step.
ModeSentAfter ==
    IF \E t \in Tasks : SendsMode(t)
    THEN ModeCommand(task'[CHOOSE t \in Tasks : SendsMode(t)])
    ELSE device.modeSent

\* The device in a step in which no request is answered.
DeviceUnanswered ==
    device' = [device EXCEPT !.modeSent = ModeSentAfter]

\* The device in the step in which the request of task t on path "mode" or
\* "brightness" ends with outcome o.
DeviceAnswers(t, o) ==
    LET r == task[t]
        carriedOut == (o = "ok")
    IN  device' =
          [mode |-> IF carriedOut /\ r.path = "mode" /\ r.kind # "getMode"
                    THEN ModeCommand(r) ELSE device.mode,
           brightness |-> IF carriedOut /\ r.path = "brightness"
                          THEN r.value ELSE device.brightness,
           modeSent |-> ModeSentAfter,
           refused |-> device.refused \/ ~carriedOut]

(***************************************************************************)
(* The single-file program: class RealtimeTwinkly and its timers.  It has  *)
(* no lock, and no handler catches what init throws: the failure of a      *)
(* request ends the program (the top-level await at startup, an unhandled  *)
(* rejection in the keep-alive callback).                                  *)
(*   run[n].pc  where the n-th run of init waits: "idle", "login",         *)
(*              "verify", "gestalt", "mode", "done", "threw"               *)
(*   run[n].sent  the paths of the requests it has sent                    *)
(*   timer      TRUE once the keep-alive interval is set                   *)
(*   crashed    TRUE once the program has ended on an exception            *)
(***************************************************************************)
LegacyOutcomes == {"ok", "error"}

\* await twinkly.init() at the top level, and twinkly.init(true) in the
\* keep-alive interval: init calls loginAndVerify, which sends the login
\* request.  Run 1 is the startup; the interval exists once it has returned.
LegacyStartInit(n) ==
    /\ ~legacy.crashed
    /\ legacy.run[n].pc = "idle"
    /\ \A m \in Runs : m < n => legacy.run[m].pc # "idle"
    /\ n > 1 => legacy.timer
    /\ legacy' = [legacy EXCEPT !.run[n] = [pc |-> "login",
                                            sent |-> <<"login">>]]

\* An awaited request of run n fails: axios rejects, or handleError throws
\* on a code other than 1000.  Nothing catches it.
LegacyThrow(n) ==
    [legacy EXCEPT !.run[n].pc = "threw", !.crashed = TRUE]

\* The socket step of init: close the socket there is, open a new one.
LegacyNewSocket(l) ==
    [l EXCEPT !.sockets = Append([i \in DOMAIN l.sockets |->
                                    IF i = l.udpClient THEN "closed"
                                    ELSE l.sockets[i]], "open"),
              !.udpClient = Len(l.sockets) + 1]

\* The login request of run n ends: the token is stored and decoded, and the
\* verify request is sent.
LegacyLoginResponse(n, o) ==
    /\ ~legacy.crashed
    /\ legacy.run[n].pc = "login"
    /\ legacy' =
         IF o = "ok"
         THEN LET tok == DeviceToken(legacy.devLogins + 1) IN
              [legacy EXCEPT !.devLogins = @ + 1,
                             !.authToken = tok,
                             !.authTokenBuffer = Atob(tok),
                             !.run[n].pc = "verify",
                             !.run[n].sent = Append(@, "verify")]
         ELSE LegacyThrow(n)

\* The verify request of run n ends: init goes on to getInfo.
LegacyVerifyResponse(n, o) ==
    /\ ~legacy.crashed
    /\ legacy.run[n].pc = "verify"
    /\ legacy' =
         IF o = "ok"
         THEN [legacy EXCEPT !.run[n].pc = "gestalt",
                             !.run[n].sent = Append(@, "gestalt")]
         ELSE LegacyThrow(n)

\* The gestalt request of run n ends: the metadata is stored and init goes
\* on to setMode("rt").
LegacyGestaltResponse(n, o) ==
    /\ ~legacy.crashed
    /\ legacy.run[n].pc = "gestalt"
    /\ IF o = "ok"
       THEN \E g \in Gestalts :
              legacy' = [legacy EXCEPT !.numberOfLeds = g.number_of_led,
                                       !.bytesPerLed = g.bytes_per_led,
                                       !.frameRate = g.frame_rate,
                                       !.run[n].pc = "mode",
                                       !.run[n].sent = Append(@, "mode")]
       ELSE legacy' = LegacyThrow(n)

\* The mode request of run n ends: the startup run (dontInitUdpClient =
\* false) replaces the socket, and the top level then sets the keep-alive
\* interval; a keep-alive run (dontInitUdpClient = true) just returns.
LegacyModeResponse(n, o) ==
    /\ ~legacy.crashed
    /\ legacy.run[n].pc = "mode"
    /\ legacy' =
         IF o = "ok"
         THEN LET l == [legacy EXCEPT !.run[n].pc = "done"] IN
              IF n = 1 THEN [LegacyNewSocket(l) EXCEPT !.timer = TRUE]
              ELSE l
         ELSE LegacyThrow(n)

(***************************************************************************)
(* Frames.  A Color is a record with fields r, g, b and, optionally, w.    *)
(* A channel value is a number, given here in hundredths (12850 is 128.5); *)
(* a byte of a Uint8Array is a number in 0..255.                           *)
(***************************************************************************)
\* What storing the number x into an element of a Uint8Array leaves there:
\* the fraction is dropped and the integer taken modulo 2^8.
ToUint8(x) == (x \div 100) % 256

\* The array of the n elements f[1], ..., f[n].
ArrayOf(f, n) == SubSeq(f, 1, n)

\* color.w ?? 0
WhiteOf(color) == IF "w" \in DOMAIN color THEN color.w ELSE 0

\* The colours the frames of this model are made of.
Palette ==
    << [r |-> 25500, g |-> 12850, b |-> 99],
       [r |-> 1234, g |-> 20001, b |-> 6400, w |-> 25599],
       [r |-> 0, g |-> 0, b |-> 0],
       [r |-> 100, g |-> 200, b |-> 25599, w |-> 0] >>

\* A frame of n colours; offset moves the pattern along the string, as the
\* animation of main-realtime does with time.
Stripes(n, offset) ==
    ArrayOf([p \in 1..n |-> Palette[((p - 1 + offset) % Len(Palette)) + 1]],
            n)

\* The lengths of the frames handed to sendFrame: one colour per LED, and
\* none, one, one too few and one too many.
FrameLengths(leds) == {n \in {0, 1, leds - 1, leds, leds + 1} : n >= 0}

\* new Uint8Array(numberOfLeds * bytesPerLed), then one group of bytes per
\* colour of the frame; a store beyond the end of the array is dropped, an
\* element never stored to is 0.  The call throws for a negative length and,
\* in the loop, for a bytesPerLed that is neither 3 nor 4.
FrameToBytesSizedByFrame(frame, leds, perLed) ==
    LET size == Len(frame) * perLed
    IN  [threw |-> FALSE,
         bytes |-> ArrayOf([j \in 1..size |->
                              LET color == frame[((j - 1) \div perLed) + 1]
                                  c == (j - 1) % perLed
                              IN  ToUint8(IF perLed = 3
                                          THEN <<color.r, color.g,
                                                 color.b>>[c + 1]
                                          ELSE <<WhiteOf(color), color.r,
                                                 color.g, color.b>>[c + 1])],
                           size)]

FrameToBytes(frame, leds, perLed) ==
    LET size == leds * perLed
    IN  IF size < 0 \/ (Len(frame) > 0 /\ perLed \notin {3, 4})
        THEN [threw |-> TRUE, bytes |-> <<>>]
        ELSE [threw |-> FALSE,
              bytes |-> ArrayOf([j \in 1..size |->
                  IF perLed \in {3, 4} /\ (j - 1) \div perLed < Len(frame)
                  THEN LET color == frame[((j - 1) \div perLed) + 1]
                           c == (j - 1) % perLed
                       IN  ToUint8(IF perLed = 3
                                   THEN <<color.r, color.g, color.b>>[c + 1]
                                   ELSE <<WhiteOf(color), color.r, color.g,
                                          color.b>>[c + 1])
                  ELSE 0], size)]

\* frame.slice(start, end): the elements start .. end-1, counted from 0, as
\* far as the array has them.
SliceOneShort(frame, start, end) ==
    SubSeq(frame, start + 1, Min(end, Len(frame)) - 1)

Slice(frame, start, end) == SubSeq(frame, start + 1, Min(end, Len(frame)))

fragmentSize == 900

udpAddress == [transport |-> "udp", hostname |-> "ip", port |-> 7777]

\* The header of a datagram: 0x03, the token bytes, 0x00, 0x00 and the
\* fragment number, which is stored into one byte.
HeaderTokenLast(token, fragment) ==
    ArrayOf([j \in 1..(Len(token) + 4) |->
               IF j = 1 THEN 3
               ELSE IF j = 4 THEN fragment % 256
               ELSE IF j >= 5 THEN token[j - 4]
               ELSE 0], Len(token) + 4)

Header(token, fragment) ==
    ArrayOf([j \in 1..(Len(token) + 4) |->
               IF j = 1 THEN 3
               ELSE IF j <= Len(token) + 1 THEN token[j - 1]
               ELSE IF j = Len(token) + 4 THEN fragment % 256
               ELSE 0], Len(token) + 4)

\* data: the header copied to offset 0, the fragment to offset header.length.
Datagram(header, frame) ==
    ArrayOf([j \in 1..(Len(header) + Len(frame)) |->
               IF j <= Len(header) THEN header[j] ELSE frame[j - Len(header)]],
            Len(header) + Len(frame))

\* sendFrameFragment up to its await: it throws without a socket and for a
\* fragment of more than 900 bytes, and otherwise hands data to the socket.
SendFrameFragment(fragment, frame) ==
    IF udpClient = 0 \/ Len(frame) > 900
    THEN [threw |-> TRUE, data |-> <<>>]
    ELSE [threw |-> FALSE,
          data |-> Datagram(Header(authTokenBuffer, fragment), frame)]

\* The passes of the loop of sendFrameArray over an array of len bytes:
\* for (i = 0; i < len; i += fragmentSize) has one pass for each multiple i
\* of fragmentSize below len, in ascending order, and fragment, which starts
\* at 0 and is incremented at the end of each pass, counts the passes made.
PassesCountedFromOne(len) ==
    LET starts == {i \in 0..(len - 1) : i % fragmentSize = 0}
    IN  [k \in 1..Cardinality(starts) |->
           [i |-> (k - 1) * fragmentSize, fragment |-> k]]

Passes(len) ==
    LET starts == {i \in 0..(len - 1) : i % fragmentSize = 0}
    IN  [k \in 1..Cardinality(starts) |->
           [i |-> (k - 1) * fragmentSize, fragment |-> k - 1]]

\* sendFrameArray(frame): the calls of sendFrameFragment it makes, in order,
\* as entries of the log.  The loop has no await, and sendFrameFragment has
\* none before udpClient.send: the calls are made within one turn.
SendFrameArrayOnePass(frame) ==
    LET all == Passes(Len(frame))
        passes == SubSeq(all, 1, Min(1, Len(all)))
    IN  ArrayOf([k \in 1..Len(passes) |->
           LET fragmentedFrame ==
                   Slice(frame, passes[k].i, passes[k].i + fragmentSize)
               call == SendFrameFragment(passes[k].fragment, fragmentedFrame)
           IN  [frameNo |-> frameNo + 1, fragment |-> passes[k].fragment,
                payload |-> fragmentedFrame, threw |-> call.threw,
                data |-> call.data, token |-> authTokenBuffer,
                port |-> IF call.threw THEN 0 ELSE udpAddress.port,
                status |-> IF call.threw THEN "rejected" ELSE "pending"]],
          Len(passes))

SendFrameArray(frame) ==
    LET passes == Passes(Len(frame))
    IN  ArrayOf([k \in 1..Len(passes) |->
           LET fragmentedFrame ==
                   Slice(frame, passes[k].i, passes[k].i + fragmentSize)
               call == SendFrameFragment(passes[k].fragment, fragmentedFrame)
           IN  [frameNo |-> frameNo + 1, fragment |-> passes[k].fragment,
                payload |-> fragmentedFrame, threw |-> call.threw,
                data |-> call.data, token |-> authTokenBuffer,
                port |-> IF call.threw THEN 0 ELSE udpAddress.port,
                status |-> IF call.threw THEN "rejected" ELSE "pending"]],
          Len(passes))

\* sendFrame(frame): frameToBytes, then sendFrameArray; when frameToBytes
\* throws, nothing is sent.  With keep, the frame and its bytes are recorded
\* for the properties.
SendFrame(frame, keep) ==
    /\ frameNo < MaxFrames
    /\ frameNo' = frameNo + 1
    /\ LET b == FrameToBytes(frame, numberOfLeds, bytesPerLed)
       IN  /\ sfa' = IF keep
                     THEN [input |-> frame, threw |-> b.threw,
                           frame |-> b.bytes]
                     ELSE [NoSend EXCEPT !.threw = b.threw]
           /\ log' = IF b.threw THEN log ELSE log \o SendFrameArray(b.bytes)

\* The log after udpClient.send of datagram k has settled: a failure is
\* caught and written to the console.
SettledResent(l, k, o) ==
    IF o = "ok"
    THEN [l EXCEPT ![k].status = "sent"]
    ELSE Append([l EXCEPT ![k].status = "failed"],
                [l[k] EXCEPT !.status = "pending"])

Settled(l, k, o) ==
    [l EXCEPT ![k].status = IF o = "ok" THEN "sent" ELSE "failed"]

SendOutcomes == {"ok", "error"}

\* The promise of udpClient.send for datagram k settles; the socket settles
\* its sends in the order it was handed them.
UdpSendSettles(k, o) ==
    /\ k \in DOMAIN log
    /\ log[k].status = "pending"
    /\ \A j \in 1..(k - 1) : log[j].status # "pending"
    /\ o = "error" =>
           Cardinality({j \in DOMAIN log : log[j].status = "failed"})
               < MaxSendFailures
    /\ log' = Settled(log, k, o)
    /\ UNCHANGED <<frameNo, sfa>>

\* The metadata of the devices of this model: strings whose frames take no
\* fragment, one fragment (not full, and full), and several fragments, and a
\* string that reports a bytes_per_led frameToBytes has no branch for
\* (getInfo stores what the device reports).
FrameGestalts ==
    { [number_of_led |-> 0, bytes_per_led |-> 3, frame_rate |-> 20],
      [number_of_led |-> 2, bytes_per_led |-> 5, frame_rate |-> 20],
      [number_of_led |-> 250, bytes_per_led |-> 3, frame_rate |-> 20],
      [number_of_led |-> 300, bytes_per_led |-> 3, frame_rate |-> 20],
      [number_of_led |-> 301, bytes_per_led |-> 3, frame_rate |-> 20],
      [number_of_led |-> 225, bytes_per_led |-> 4, frame_rate |-> 25],
      [number_of_led |-> 226, bytes_per_led |-> 4, frame_rate |-> 25],
      [number_of_led |-> 500, bytes_per_led |-> 4, frame_rate |-> 25] }

\* A device whose frames take more fragments than a byte can count.
WideGestalts ==
    { [number_of_led |-> 76801, bytes_per_led |-> 3, frame_rate |-> 20] }

\* The session once the startup has returned: "realtime" after initRealtime,
\* "movies" after initMovies (no socket), "none" when neither was called;
\* all of it but lastBrightness.
StartedSession(how, g) ==
    /\ authToken = IF how = "none" THEN <<>> ELSE DeviceToken(1)
    /\ authTokenBuffer = Atob(authToken)
    /\ numberOfLeds = IF how = "none" THEN -1 ELSE g.number_of_led
    /\ bytesPerLed = IF how = "none" THEN -1 ELSE g.bytes_per_led
    /\ frameRate = IF how = "none" THEN -1 ELSE g.frame_rate
    /\ udpClient = IF how = "realtime" THEN 1 ELSE 0
    /\ sockets = IF how = "realtime" THEN <<"open">> ELSE <<>>
    /\ initialized = (how # "none")
    /\ keepAlive = (how = "realtime")
    /\ loggingInLock = FALSE
    /\ devLogins = IF how = "none" THEN 0 ELSE 1
    /\ nLogins = devLogins
    /\ exchange = [state |-> IF how = "none" THEN "none" ELSE "ok",
                   authToken |-> <<>>, authTokenBuffer |-> <<>>]
    /\ task = [t \in Tasks |-> IdleTask]
    /\ frameNo = 0
    /\ sfa = NoSend
    /\ log = <<>>
    /\ legacy = NoLegacy

\* The session once the startup has returned, setBrightness not called yet.
Started(how, g) ==
    /\ StartedSession(how, g)
    /\ lastBrightness = -1

InitFrame ==
    \E how \in {"none", "movies", "realtime"}, g \in FrameGestalts :
        Started(how, g) /\ ctl = NoControl /\ device = NoDevice

InitWide ==
    \E g \in FrameGestalts \cup WideGestalts :
        Started("realtime", g) /\ ctl = NoControl /\ device = NoDevice

(***************************************************************************)
(* The main programs: main.ts (the movie program: initMovies, a tween of   *)
(* the brightness) and main-realtime (initRealtime, a tween of the opacity *)
(* of the frames it sends), from the moment their startup has returned.    *)
(* Fields of ctl:                                                          *)
(*   program   "movie" or "realtime"                                       *)
(*   active, opacity, opacityTweener, currentlySettingBrightness,          *)
(*   currentlySettingBrightnessReqId   the variables of the module; the    *)
(*             request ids, random strings in the program, are numbered in *)
(*             the order in which they are made, and 0 is undefined        *)
(*   now       the clock, in ms since the startup                          *)
(*   timers    the setTimeout timers pending: the reqId their              *)
(*             ensureBrightness closes over, and when they are due         *)
(*   by        who made the call of task t: "callback" (the tween          *)
(*             callback), "ensure" (ensureBrightness), "none"              *)
(*   crashed   TRUE once a rejection nobody handles has ended the process  *)
(*   nHttp, resp   the number of requests to /api/active handled, and the  *)
(*             last one with its response                                  *)
(* and, read by the properties only:                                       *)
(*   delivered, deliveredAt   the value the tween callback was last called *)
(*             with, and when                                              *)
(*   deliveredSince   whether it has been called since the last tween()    *)
(*   atRetrigger, midFlight   delivered at the last tween(), and whether a *)
(*             transition was in progress then                             *)
(***************************************************************************)
\* Number of requests to /api/active.
MaxRequests == 2

\* Number of steps of the clock, of 1000 ms each.
MaxAdvances == 3

\* The device of the main programs of this model.
ControlGestalt ==
    [number_of_led |-> 2, bytes_per_led |-> 3, frame_rate |-> 20]

\* The bodies of the POST requests: text that is not JSON, the JSON null,
\* and the objects {}, {"active": null}, {"active": true} and
\* {"active": false}.
Bodies ==
    { [json |-> FALSE, object |-> FALSE, active |-> "missing"],
      [json |-> TRUE, object |-> FALSE, active |-> "missing"],
      [json |-> TRUE, object |-> TRUE, active |-> "missing"],
      [json |-> TRUE, object |-> TRUE, active |-> "null"],
      [json |-> TRUE, object |-> TRUE, active |-> "true"],
      [json |-> TRUE, object |-> TRUE, active |-> "false"] }

\* Whether the try block of the POST handler throws before it assigns:
\* c.req.json() throws on text that is not JSON, body.active throws on
\* null, and the handler throws when body.active == null.
ThrowsUnlessObject(body) ==
    \/ ~body.json
    \/ ~body.object

Throws(body) ==
    \/ ~body.json
    \/ ~body.object
    \/ body.active \in {"missing", "null"}

\* opacityTweener.tween(target, 2000, Easing.Out), with what the properties
\* read.
TweenOpacityAway(c, target) ==
    [c EXCEPT !.opacityTweener = Tween(@, 1000 - target, 2000, c.now),
              !.atRetrigger = c.delivered,
              !.midFlight = c.opacityTweener.running,
              !.deliveredSince = FALSE]

TweenOpacity(c, target) ==
    [c EXCEPT !.opacityTweener = Tween(@, target, 2000, c.now),
              !.atRetrigger = c.delivered,
              !.midFlight = c.opacityTweener.running,
              !.deliveredSince = FALSE]

\* POST /api/active with the given body.  Before `await c.req.json()` the
\* handler touches nothing; this is the handler from there on.  In the
\* movie program two ensureBrightness timers are set, for 2000 and 3000 ms.
PostActive(body) ==
    /\ ~ctl.crashed
    /\ ctl.nHttp < MaxRequests
    /\ LET c == [ctl EXCEPT !.nHttp = @ + 1]
           v == (body.active = "true")
           reqId == ctl.nHttp + 1
           set == IF Throws(body) THEN c
                  ELSE IF ctl.program = "movie"
                  THEN [TweenOpacity(c, IF v THEN 1000 ELSE 0) EXCEPT
                          !.active = v,
                          !.currentlySettingBrightnessReqId = reqId,
                          !.timers = @ \cup
                              {[reqId |-> reqId, due |-> ctl.now + 2000],
                               [reqId |-> reqId, due |-> ctl.now + 3000]}]
                  ELSE [TweenOpacity(c, IF v THEN 1000 ELSE 0) EXCEPT
                          !.active = v]
       IN  ctl' = [set EXCEPT
                     !.resp = [method |-> "POST", body |-> body.active,
                               status |-> 200, json |-> <<set.active>>]]
    /\ UNCHANGED <<sessionVars, legacy, frameVars, device>>

\* GET /api/active: the movie program answers {active}; the realtime program
\* has no route for it, and the framework answers 404.
GetActive ==
    /\ ~ctl.crashed
    /\ ctl.nHttp < MaxRequests
    /\ ctl' = [ctl EXCEPT
                 !.nHttp = @ + 1,
                 !.resp = IF ctl.program = "movie"
                          THEN [method |-> "GET", body |-> "none",
                                status |-> 200, json |-> <<ctl.active>>]
                          ELSE [method |-> "GET", body |-> "none",
                                status |-> 404, json |-> <<>>]]
    /\ UNCHANGED <<sessionVars, legacy, frameVars, device>>

\* The clock moves on by 1000 ms.
Advance ==
    /\ ~ctl.crashed
    /\ ctl.now < 1000 * MaxAdvances
    /\ ctl' = [ctl EXCEPT !.now = @ + 1000]
    /\ UNCHANGED <<sessionVars, legacy, frameVars, device>>

\* ctl after tweenManager.update() with result u, but for what the callback
\* does.
Updated(u) ==
    [ctl EXCEPT !.opacityTweener = u.tweener,
                !.delivered = IF u.fired THEN u.value ELSE @,
                !.deliveredAt = IF u.fired THEN ctl.now ELSE @,
                !.deliveredSince = @ \/ u.fired]

\* if (currentlySettingBrightness) return;
SkipsNever(setting) == FALSE

Skips(setting) == setting

\* The interval of the movie program fires: tweenManager.update(), whose
\* callback returns when a brightness call of an earlier callback is in
\* progress and otherwise sets the guard and calls setBrightness(o).
TickMovie ==
    /\ ~ctl.crashed
    /\ ctl.program = "movie"
    /\ LET u == Update(ctl.opacityTweener, ctl.now) IN
         IF ~u.fired \/ Skips(ctl.currentlySettingBrightness)
         THEN /\ ctl' = Updated(u)
              /\ UNCHANGED <<sessionVars, device>>
         ELSE \E t \in Tasks :
                /\ SetBrightness(t, u.value)
                /\ ctl' = [Updated(u) EXCEPT
                             !.currentlySettingBrightness = TRUE,
                             !.by[t] = "callback"]
                /\ DeviceUnanswered
    /\ UNCHANGED <<legacy, frameVars>>

\* new Array(numberOfLeds).fill({r: 0, g: 0, b: 0})
BlankFrame(n) == ArrayOf([p \in 1..n |-> [r |-> 0, g |-> 0, b |-> 0]], n)

\* lerp(a, b, t), t in thousandths.
lerp(a, b, t) == a + ((b - a) * t) \div 1000

\* lerpFrame(_1, _2, t)
lerpFrame(f1, f2, t) ==
    LET length == Min(Len(f1), Len(f2))
    IN  ArrayOf([i \in 1..length |->
                   [r |-> lerp(f1[i].r, f2[i].r, t),
                    g |-> lerp(f1[i].g, f2[i].g, t),
                    b |-> lerp(f1[i].b, f2[i].b, t),
                    w |-> IF "w" \in DOMAIN f1[i] /\ "w" \in DOMAIN f2[i]
                          THEN lerp(f1[i].w, f2[i].w, t)
                          ELSE 0]], length)

\* The frame of the animation at time now: the pattern moves by 3 places a
\* second, and between two places the two frames are blended.
AnimatedFrame(now, n) ==
    LET scaledTime == now * 3
        offset == scaledTime \div 1000
        t == scaledTime % 1000
    IN  lerpFrame(Stripes(n, offset), Stripes(n, offset + 1), t)

\* The interval of the realtime program fires: tweenManager.update(), whose
\* callback stores the opacity, and then sendFrame of the blank frame, the
\* animated frame, or the two blended by the opacity.
TickRealtime ==
    /\ ~ctl.crashed
    /\ ctl.program = "realtime"
    /\ LET u == Update(ctl.opacityTweener, ctl.now)
           opacity == IF u.fired THEN u.value ELSE ctl.opacity
           frame == AnimatedFrame(ctl.now, numberOfLeds)
       IN  /\ ctl' = [Updated(u) EXCEPT !.opacity = opacity]
           /\ SendFrame(IF opacity = 0 THEN BlankFrame(numberOfLeds)
                        ELSE IF opacity = 1000 THEN frame
                        ELSE lerpFrame(BlankFrame(numberOfLeds), frame,
                                       opacity), TRUE)
    /\ UNCHANGED <<sessionVars, legacy, device>>

\* if (currentlySettingBrightnessReqId != reqId) return;
TransitioningElseNever(current, reqId) == FALSE

TransitioningElse(current, reqId) == current # reqId

\* A timer set by the POST handler fires, the earliest first:
\* ensureBrightness returns when a later POST has set another request id,
\* and otherwise calls setBrightness(active ? 1 : 0).
TimerFires(tm) ==
    /\ ~ctl.crashed
    /\ tm \in ctl.timers
    /\ tm.due <= ctl.now
    /\ \A other \in ctl.timers : tm.due <= other.due
    /\ IF TransitioningElse(ctl.currentlySettingBrightnessReqId, tm.reqId)
       THEN /\ ctl' = [ctl EXCEPT !.timers = @ \ {tm}]
            /\ UNCHANGED <<sessionVars, device>>
       ELSE \E t \in Tasks :
              /\ SetBrightness(t, IF ctl.active THEN 1000 ELSE 0)
              /\ ctl' = [ctl EXCEPT !.timers = @ \ {tm},
                                    !.by[t] = "ensure"]
              /\ DeviceUnanswered
    /\ UNCHANGED <<legacy, frameVars>>

\* The call of task t ends in this step.
JustEnded(t) ==
    /\ task[t].pc \notin {"done", "threw"}
    /\ task'[t].pc \in {"done", "threw"}

\* What the main program does when a call of setBrightness settles: the
\* tween callback clears its guard in its finally block; nothing catches
\* what ensureBrightness throws.
CallSettles ==
    ctl' = [ctl EXCEPT
              !.currentlySettingBrightness =
                  IF \E t \in Tasks : ctl.by[t] = "callback" /\ JustEnded(t)
                  THEN FALSE ELSE @,
              !.crashed =
                  \/ @
                  \/ \E t \in Tasks : /\ ctl.by[t] = "ensure"
                                       /\ JustEnded(t)
                                       /\ task'[t].pc = "threw"]

\* A main program whose startup has returned: the movie program has read
\* the mode of the device into active, the realtime program starts active
\* and opaque.
InitControl ==
    \E program \in {"movie", "realtime"}, a \in BOOLEAN :
        /\ program = "realtime" => a
        /\ Started(IF program = "movie" THEN "movies" ELSE "realtime",
                   ControlGestalt)
        /\ ctl = [NoControl EXCEPT
                    !.program = program,
                    !.active = a,
                    !.opacityTweener =
                        NewTweener(IF a THEN 1000 ELSE 0)]
        /\ device = [NoDevice EXCEPT
                       !.mode = IF program = "realtime" THEN "rt"
                                ELSE IF a THEN "movie" ELSE "off"]

\* How the requests of the main programs end in this model: the device
\* keeps the session of the startup (it answers no 401), and a request gets
\* a 2xx answer, an error status, or no response.
ControlOutcomes == {"ok", "status", "noresp"}

NextControl ==
    \/ \E body \in Bodies : PostActive(body)
    \/ GetActive
    \/ Advance
    \/ TickMovie
    \/ TickRealtime
    \/ \E tm \in ctl.timers : TimerFires(tm)
    \/ \E t \in Tasks, o \in ControlOutcomes :
           /\ ~ctl.crashed
           /\ ReqResponse(t, o)
           /\ CallSettles
           /\ DeviceAnswers(t, o)
           /\ UNCHANGED <<legacy, frameVars>>

Next ==
    \/ \E t \in Tasks : InitRealtime(t) /\ UNCHANGED <<legacy, frameVars, ctl, device>>
    \/ \E t \in Tasks : InitMovies(t) /\ UNCHANGED <<legacy, frameVars, ctl, device>>
    \/ \E t \in Tasks : KeepAliveTick(t) /\ UNCHANGED <<legacy, frameVars, ctl, device>>
    \/ \E t \in Tasks : SetMode(t) /\ UNCHANGED <<legacy, frameVars, ctl, device>>
    \/ \E t \in Tasks, o \in Outcomes :
           ReqResponse(t, o) /\ UNCHANGED <<legacy, frameVars, ctl, device>>
    \/ \E t \in Tasks, o \in Outcomes :
           LoginResponse(t, o) /\ UNCHANGED <<legacy, frameVars, ctl, device>>
    \/ \E t \in Tasks, o \in Outcomes :
           VerifyResponse(t, o) /\ UNCHANGED <<legacy, frameVars, ctl, device>>

\* The device may also answer a login with a token that is not base64.
NextDecode ==
    \/ Next
    \/ \E t \in Tasks :
           LoginResponseUndecodable(t)
               /\ UNCHANGED <<legacy, frameVars, ctl, device>>

NextLegacy ==
    \/ \E n \in Runs : LegacyStartInit(n) /\ UNCHANGED <<sessionVars, frameVars, ctl, device>>
    \/ \E n \in Runs, o \in LegacyOutcomes :
           LegacyLoginResponse(n, o) /\ UNCHANGED <<sessionVars, frameVars, ctl, device>>
    \/ \E n \in Runs, o \in LegacyOutcomes :
           LegacyVerifyResponse(n, o) /\ UNCHANGED <<sessionVars, frameVars, ctl, device>>
    \/ \E n \in Runs, o \in LegacyOutcomes :
           LegacyGestaltResponse(n, o) /\ UNCHANGED <<sessionVars, frameVars, ctl, device>>
    \/ \E n \in Runs, o \in LegacyOutcomes :
           LegacyModeResponse(n, o) /\ UNCHANGED <<sessionVars, frameVars, ctl, device>>

NextFrame ==
    \/ \E n \in FrameLengths(numberOfLeds) :
           SendFrame(Stripes(n, frameNo), TRUE)
               /\ UNCHANGED <<sessionVars, legacy, ctl, device>>
    \/ \E k \in DOMAIN log, o \in SendOutcomes :
           UdpSendSettles(k, o) /\ UNCHANGED <<sessionVars, legacy, ctl, device>>

\* Frames are sent while the keep-alive fires once; its request may bring a
\* new login.
NextWide ==
    \/ SendFrame(Stripes(numberOfLeds, frameNo), FALSE)
           /\ UNCHANGED <<sessionVars, legacy, ctl, device>>
    \/ KeepAliveTick(1) /\ UNCHANGED <<legacy, frameVars, ctl, device>>
    \/ \E t \in Tasks, o \in Outcomes :
           ReqResponse(t, o) /\ UNCHANGED <<legacy, frameVars, ctl, device>>
    \/ \E t \in Tasks, o \in Outcomes :
           LoginResponse(t, o) /\ UNCHANGED <<legacy, frameVars, ctl, device>>
    \/ \E t \in Tasks, o \in Outcomes :
           VerifyResponse(t, o) /\ UNCHANGED <<legacy, frameVars, ctl, device>>

\* The startup call of the main program has returned: both main programs
\* await initRealtime() or initMovies() at the top level before they call
\* anything else, and end there when it throws.
StartupReturned ==
    \E u \in Tasks : /\ task[u].kind \in {"initRealtime", "initMovies"}
                     /\ task[u].pc = "done"

\* The operations of the client that send requests, called as the main
\* programs do: first the startup, on a new object, and the others once it
\* has returned (setMode is called by initRealtime, the keep-alive and
\* setBrightness).
NextClient ==
    \/ \E t \in Tasks : InitRealtime(t) /\ UNCHANGED <<legacy, frameVars, ctl, device>>
    \/ \E t \in Tasks : InitMovies(t) /\ UNCHANGED <<legacy, frameVars, ctl, device>>
    \/ \E t \in Tasks : KeepAliveTick(t) /\ UNCHANGED <<legacy, frameVars, ctl, device>>
    \/ \E t \in Tasks :
           StartupReturned /\ GetMode(t) /\ UNCHANGED <<legacy, frameVars, ctl, device>>
    \/ \E t \in Tasks, v \in BrightnessArgs :
           StartupReturned /\ SetBrightness(t, v)
               /\ UNCHANGED <<legacy, frameVars, ctl, device>>
    \/ \E t \in Tasks, o \in Outcomes :
           ReqResponse(t, o) /\ UNCHANGED <<legacy, frameVars, ctl, device>>
    \/ \E t \in Tasks, o \in Outcomes :
           LoginResponse(t, o) /\ UNCHANGED <<legacy, frameVars, ctl, device>>
    \/ \E t \in Tasks, o \in Outcomes :
           VerifyResponse(t, o) /\ UNCHANGED <<legacy, frameVars, ctl, device>>

\* No call is in progress.
NoCallInProgress ==
    \A u \in Tasks : task[u].pc \in {"idle", "done", "threw"}

\* A client of the movie program, new but for its startup, in front of a
\* device that is in mode "off" or in mode "movie".
InitBrightness ==
    \E m \in {"off", "movie"} :
        /\ Started("movies", ControlGestalt)
        /\ ctl = NoControl
        /\ device = [NoDevice EXCEPT !.mode = m]

\* Calls of setBrightness made one after another: each is awaited before
\* the next is made.
NextBrightness ==
    \/ \E t \in Tasks, v \in BrightnessArgs :
           /\ NoCallInProgress
           /\ SetBrightness(t, v)
           /\ DeviceUnanswered
           /\ UNCHANGED <<legacy, frameVars, ctl>>
    \/ \E t \in Tasks, o \in Outcomes :
           /\ ReqResponse(t, o)
           /\ DeviceAnswers(t, o)
           /\ UNCHANGED <<legacy, frameVars, ctl>>
    \/ \E t \in Tasks, o \in Outcomes :
           /\ LoginResponse(t, o)
           /\ DeviceUnanswered
           /\ UNCHANGED <<legacy, frameVars, ctl>>
    \/ \E t \in Tasks, o \in Outcomes :
           /\ VerifyResponse(t, o)
           /\ DeviceUnanswered
           /\ UNCHANGED <<legacy, frameVars, ctl>>

\* The movie program at rest: as its startup leaves it, with the device in
\* mode "movie" (active) or "off", or as a completed POST {active: false}
\* leaves it, the last call of setBrightness having set lastBrightness to 0
\* and the device being off.
InitSettle ==
    \E new \in BOOLEAN, a \in BOOLEAN :
        /\ ~new => ~a
        /\ StartedSession("movies", ControlGestalt)
        /\ lastBrightness = IF new THEN -1 ELSE 0
        /\ ctl = [NoControl EXCEPT
                    !.program = "movie",
                    !.active = a,
                    !.opacityTweener = NewTweener(IF a THEN 1000 ELSE 0)]
        /\ device = [NoDevice EXCEPT
                       !.mode = IF a THEN "movie" ELSE "off",
                       !.brightness = IF new THEN -1 ELSE 0,
                       !.modeSent = IF new THEN "none" ELSE "off"]

\* The bodies {"active": true} and {"active": false}.
ValidBodies == {body \in Bodies : ~Throws(body)}

\* Nothing refers to a call that has ended: its record is dropped, and its
\* place is free for a call made later.
Forget(t) ==
    /\ task[t].pc \in {"done", "threw"}
    /\ task' = [task EXCEPT ![t] = IdleTask]
    /\ ctl' = [ctl EXCEPT !.by[t] = "none"]
    /\ UNCHANGED <<authToken, authTokenBuffer, numberOfLeds, bytesPerLed,
                   frameRate, udpClient, initialized, loggingInLock,
                   keepAlive, devLogins, nLogins, exchange, sockets,
                   lastBrightness, legacy, frameVars, device>>

\* The movie program under POST requests with a valid body, NumTasks being
\* the number of calls in progress at a time.
NextSettle ==
    \/ \E body \in ValidBodies : PostActive(body)
    \/ Advance
    \/ TickMovie
    \/ \E tm \in ctl.timers : TimerFires(tm)
    \/ \E t \in Tasks, o \in ControlOutcomes :
           /\ ~ctl.crashed
           /\ ReqResponse(t, o)
           /\ CallSettles
           /\ DeviceAnswers(t, o)
           /\ UNCHANGED <<legacy, frameVars>>
    \/ \E t \in Tasks : Forget(t)

vars == <<sessionVars, legacy, frameVars, ctl, device>>

\* The Twinkly class under calls of its public operations.
Spec == Init /\ [][Next]_vars

\* The HTTP exchange of task t in flight ends, with an answer or a failure.
ExchangeEnds(t) ==
    \E o \in Outcomes :
        /\ \/ ReqResponse(t, o)
           \/ LoginResponse(t, o)
           \/ VerifyResponse(t, o)
        /\ UNCHANGED <<legacy, frameVars, ctl, device>>

\* The Twinkly class under calls of its public operations, when every HTTP
\* exchange ends: axios settles its promise, and the event loop then runs
\* the continuation.
SpecLive == Init /\ [][Next]_vars /\ \A t \in Tasks : WF_vars(ExchangeEnds(t))

\* The single-file program around RealtimeTwinkly.
SpecLegacy == Init /\ [][NextLegacy]_vars

\* Frames sent through a Twinkly object whose startup has returned.
SpecFrame == InitFrame /\ [][NextFrame]_vars

\* The Twinkly class under the calls of a main program.
SpecClient == Init /\ [][NextClient]_vars

\* Calls of setBrightness made one after another on a new client.
SpecDecode == Init /\ [][NextDecode]_vars

SpecBrightness == InitBrightness /\ [][NextBrightness]_vars

\* A main program: its HTTP surface, its tween and its timers around the
\* Twinkly object.
SpecControl == InitControl /\ [][NextControl]_vars

\* The movie program from rest to rest.
SpecSettle == InitSettle /\ [][NextSettle]_vars

\* Frames sent to devices of any size, up to the hand-over to the socket,
\* while the session is kept alive.
SpecWide == InitWide /\ [][NextWide]_vars

(***************************************************************************)
(* Properties of the session (specification Spec).                         *)
(***************************************************************************)
Range(f) == {f[i] : i \in DOMAIN f}

\* The tasks whose login/verify exchange is in flight.
Exchanging == {t \in Tasks : task[t].pc \in {"login_await", "verify_await"}}

\* C1: a req call that got its 401 while another caller's login/verify
\* exchange was in flight sends no login of its own, no further login is sent
\* before its retry, and its retry carries the token the device gave to that
\* exchange's login.
C1_WaiterReusesLogin ==
    \A t \in Tasks :
        task[t].busy =>
            /\ task[t].nLogin = 0
            /\ task[t].pc \in {"lv_wait", "req_await"}
            /\ task[t].pc = "req_await" =>
                   /\ task[t].retry
                   /\ task[t].nSend = 2
                   /\ task[t].exAtRetry = task[t].exAtWait
                   /\ task[t].waitTok # <<>> => task[t].hdr = task[t].waitTok

\* Two requests failed with 401 at the same time, one login was sent in all,
\* and the second caller's retry is in flight with the token of that login.
C1_Witness ==
    \E t \in Tasks :
        /\ task[t].busy
        /\ task[t].pc = "req_await"
        /\ task[t].retry
        /\ task[t].waitTok = DeviceToken(1)
        /\ task[t].hdr = DeviceToken(1)
        /\ nLogins = 1

\* C2, for the Twinkly class alone: at most one task is between sending its
\* login request and the end of its verify request, and then the lock is
\* held.
TwinklyOneExchange ==
    /\ Cardinality(Exchanging) <= 1
    /\ Exchanging # {} => loggingInLock

\* C3: a req call sends its request at most twice and calls loginAndVerify
\* at most once; a first 401 is followed by loginAndVerify and then one
\* retry; a 401 on the retry ends the call as a failure.
CallWithinBudget(c) ==
    /\ c.nSend <= 2
    /\ c.nLv <= 1
    /\ c.nLogin <= 1
    /\ c.n401 <= 2
    /\ c.n401 >= 1 => c.nLv = 1
    /\ c.nSend = 2 => c.nLv = 1 /\ c.n401 >= 1

C3_SingleRetry ==
    \A t \in Tasks :
        /\ CallWithinBudget(task[t])
        /\ CallWithinBudget(task[t].fin)
        /\ task[t].fin.n401 >= 1 => task[t].fin.nSend = 2
        /\ task[t].fin.n401 = 2 =>
               /\ task[t].fin.result = "failed"
               /\ task[t].fin.nSend = 2
               /\ task[t].fin.nLv = 1
        /\ (task[t].pc = "req_await" /\ task[t].n401 = 1) =>
               task[t].retry /\ task[t].nSend = 2

\* A req call got 401 on its first attempt and 401 on its retry, and
\* returned as a failure after two sends and one loginAndVerify.
C3_Witness ==
    \E t \in Tasks :
        /\ task[t].fin.n401 = 2
        /\ task[t].fin.result = "failed"
        /\ task[t].fin.nSend = 2
        /\ task[t].fin.nLv = 1

\* C4: after a loginAndVerify that failed, at the login step or at the
\* verify step, authToken and authTokenBuffer are what they were before it.
C4_TokenUnchangedOnFailure ==
    exchange.state \in {"login failed", "verify failed"} =>
        /\ authToken = exchange.authToken
        /\ authTokenBuffer = exchange.authTokenBuffer

\* A login succeeded and its verify failed: the session holds the token of
\* that login, not the one it held before the call.
C4_Witness ==
    /\ exchange.state = "verify failed"
    /\ authToken = DeviceToken(devLogins)
    /\ authToken # exchange.authToken
    /\ authTokenBuffer # exchange.authTokenBuffer

\* The part of C4 the code keeps: after a loginAndVerify that failed at the
\* login step, the token and the buffer are what they were before it.
TokenUnchangedOnLoginFailure ==
    exchange.state = "login failed" =>
        /\ authToken = exchange.authToken
        /\ authTokenBuffer = exchange.authTokenBuffer

\* C5: a firing of the keep-alive timer that has run to its end has sent a
\* login, a verify, a gestalt and a mode request.
C5_KeepAliveFullInit ==
    \A t \in Tasks :
        (task[t].kind = "keepAlive" /\ task[t].pc = "done") =>
            {"login", "verify", "gestalt", "mode"} \subseteq Range(task[t].sent)

\* A firing of the keep-alive timer has run to its end and has sent the mode
\* request only.
C5_Witness ==
    \E t \in Tasks :
        /\ task[t].kind = "keepAlive"
        /\ task[t].pc = "done"
        /\ task[t].sent = <<"mode">>

\* C12: whatever way a request to the device fails (no response, an error
\* status, a failed login, verify, gestalt or mode request), no call of a
\* public operation of the client ends by an exception thrown to its caller
\* (the startup, a timer callback, an HTTP handler).
C12_FailuresAbsorbed ==
    \A t \in Tasks : task[t].pc # "threw"

\* A keep-alive firing has ended by an exception: its mode request got no
\* response, and req threw from its catch block.
C12_Witness ==
    \E t \in Tasks :
        /\ task[t].kind = "keepAlive"
        /\ task[t].pc = "threw"
        /\ task[t].fin.path = "mode"
        /\ task[t].fin.result = "threw"

\* The sockets that are open.
OpenSockets == {i \in DOMAIN sockets : sockets[i] = "open"}

\* The calls of kind k that have returned.
Returned(k) == {t \in Tasks : task[t].kind = k /\ task[t].pc = "done"}

WaitsOnLock(t) == task[t].pc \in {"req_wait", "lv_wait"}

\* C21 (specification SpecLive): when every HTTP exchange ends, the lock
\* that a loginAndVerify holds is released, whatever the outcomes of its
\* login and verify requests, and a call that waits for the lock goes on
\* and ends; a call waits only while the lock is held, and the login and
\* verify requests are in flight while it is held, without waiting for it.
\* (A call ends by returning, or by the exception req throws when a request
\* gets no response; either way it is not blocked.)
C21_LockReleased ==
    /\ loggingInLock ~> ~loggingInLock
    /\ \A t \in Tasks :
           WaitsOnLock(t)
               ~> (~WaitsOnLock(t) /\ task[t].pc \in {"done", "threw"})
    /\ [](\A t \in Tasks :
             /\ WaitsOnLock(t) => loggingInLock
             /\ task[t].pc \in {"login_await", "verify_await"}
                    => loggingInLock)

\* A login that got no usable answer has released the lock, and a call
\* that waited for it, in the loginAndVerify of its req, has retried its
\* request and returned.
C21_Witness ==
    /\ ~loggingInLock
    /\ exchange.state = "login failed"
    /\ \E t \in Tasks : /\ task[t].pc = "done"
                         /\ task[t].fin.nLv = 1
                         /\ task[t].fin.nLogin = 0
                         /\ task[t].fin.nSend = 2

(***************************************************************************)
(* Properties of the calls of a main program (specification SpecClient).   *)
(***************************************************************************)
\* The calls of setBrightness whose brightness request is being sent: it
\* waits for the login lock, or is in flight.
SendingBrightness ==
    {t \in Tasks : /\ task[t].kind = "setBrightness"
                   /\ task[t].path = "brightness"
                   /\ task[t].pc \in {"req_wait", "req_await"}}

\* C18: the value of every brightness request of setBrightness(v) is a whole
\* number from 0 to 100: 0 for v <= 0, 100 for v >= 1, and the whole part of
\* 100 v in between.
C18_BrightnessValue ==
    \A t \in SendingBrightness :
        /\ task[t].value \in 0..100
        /\ task[t].value = IF task[t].arg <= 0 THEN 0
                           ELSE IF task[t].arg >= 1000 THEN 100
                           ELSE task[t].arg \div 10

\* The brightness request of setBrightness(1.5) is in flight, with value
\* 100.
C18_Witness ==
    \E t \in SendingBrightness :
        /\ task[t].pc = "req_await"
        /\ task[t].arg = 1500
        /\ task[t].value = 100
        /\ task[t].sent = <<"brightness">>

\* C20: a step changes authToken or authTokenBuffer only when it is the
\* step of loginAndVerify that stores the answer to its login request, and
\* the login lock is held before and after it; every step of req, getInfo,
\* setMode, getMode and setBrightness leaves both as they are.
C20_TokenChangedOnlyUnderLock ==
    [][(authToken' # authToken \/ authTokenBuffer' # authTokenBuffer) =>
           /\ loggingInLock
           /\ loggingInLock'
           /\ \E t \in Tasks : /\ task[t].pc = "login_await"
                                /\ task'[t].pc = "verify_await"
                                /\ authToken' = task'[t].issued
                                /\ authTokenBuffer' = Atob(authToken')]_vars

\* A brightness request of setBrightness was answered 401, and the
\* loginAndVerify called by its req has stored a second token, under the
\* lock.
C20_Witness ==
    /\ loggingInLock
    /\ authToken = DeviceToken(2)
    /\ authTokenBuffer = Atob(DeviceToken(2))
    /\ \E t \in Tasks : /\ task[t].kind = "setBrightness"
                         /\ task[t].path = "brightness"
                         /\ task[t].n401 = 1
                         /\ task[t].pc = "verify_await"

\* C26: between any two steps authTokenBuffer holds the bytes that
\* authToken decodes to, whatever became of the last login: its request
\* failed, its token could not be decoded, or its verify request failed.
C26_BufferDecodesToken ==
    /\ ~AtobThrows(authToken)
    /\ authTokenBuffer = Atob(authToken)

\* A login during the session got a token that is not base64: authToken is
\* that token, authTokenBuffer still holds the bytes of the token of the
\* startup, the lock is free, and the request that had brought the login
\* is sent again with the new token in its header.
C26_Witness ==
    /\ exchange.state = "decode failed"
    /\ ~loggingInLock
    /\ authToken = UndecodableToken
    /\ authTokenBuffer = Atob(DeviceToken(1))
    /\ \E t \in Tasks :
           /\ task[t].pc = "req_await"
           /\ task[t].hdr = authToken
           /\ task[t].retry

(***************************************************************************)
(* Properties of setBrightness and the device (specification               *)
(* SpecBrightness).                                                        *)
(***************************************************************************)

\* C22: setBrightness calls are made one after another on a new client
\* (lastBrightness = -1), the device being in mode "off" or "movie" at the
\* start.  When the calls made so far have returned (lastBrightness is
\* the percentage of the last one) and the percentage is 0, the last mode
\* command sent is "off"; when the percentage is positive, the device, if
\* it has carried out every request, is in mode "movie".
C22_ModeFollowsBrightness ==
    (/\ NoCallInProgress
     /\ lastBrightness >= 0
     /\ \A t \in Tasks : task[t].pc # "threw")
    => /\ lastBrightness = 0 => device.modeSent = "off"
       /\ (lastBrightness > 0 /\ ~device.refused) => device.mode = "movie"

\* The device was in mode "off"; the first call, with a positive
\* percentage, has sent the brightness request only, the device has
\* carried it out, and it is still in mode "off".
C22_Witness ==
    /\ NoCallInProgress
    /\ task[1].kind = "setBrightness"
    /\ task[1].pc = "done"
    /\ task[1].sent = <<"brightness">>
    /\ task[2].pc = "idle"
    /\ lastBrightness > 0
    /\ device.brightness = lastBrightness
    /\ device.modeSent = "none"
    /\ ~device.refused
    /\ device.mode = "off"

(***************************************************************************)
(* Properties of the main programs (specification SpecControl).            *)
(***************************************************************************)

\* The step is the handling of a request to /api/active.
HandlesRequest == ctl'.nHttp = ctl.nHttp + 1

\* C13: a POST /api/active whose body has no `active` key, or cannot be
\* parsed, changes nothing: the active flag keeps its value, no tween is
\* started, no brightness timer is scheduled and no request id is made, no
\* call to the device is started, and the response is {active: <the value
\* before the request>}.
C13_MalformedPostChangesNothing ==
    [][(/\ HandlesRequest
        /\ ctl'.resp.method = "POST"
        /\ ctl'.resp.body = "missing")
       => /\ ctl'.active = ctl.active
          /\ ctl'.opacityTweener = ctl.opacityTweener
          /\ ctl'.timers = ctl.timers
          /\ ctl'.currentlySettingBrightnessReqId =
                 ctl.currentlySettingBrightnessReqId
          /\ task' = task
          /\ ctl'.resp.status = 200
          /\ ctl'.resp.json = <<ctl.active>>]_vars

\* The realtime program, switched off a second ago by a POST, has answered
\* a POST without an `active` key with {active: false}, and the transition
\* of the first POST is still the one in progress.
C13_Witness ==
    /\ ctl.program = "realtime"
    /\ ctl.resp.method = "POST"
    /\ ctl.resp.body = "missing"
    /\ ctl.resp.json = <<FALSE>>
    /\ ~ctl.active
    /\ ctl.opacityTweener.running
    /\ ctl.opacityTweener.startTime < ctl.now

\* The step is the handling of a POST /api/active with body {active: v}.
ValidPost(v) ==
    /\ HandlesRequest
    /\ ctl'.resp.method = "POST"
    /\ ctl'.resp.body = (IF v THEN "true" ELSE "false")

\* A call to the device is in progress.
InFlight(t) == task[t].pc \notin {"idle", "done", "threw"}

DeliveredAfterRetrigger ==
    /\ ctl.midFlight
    /\ ctl.atRetrigger >= 0
    /\ ctl.deliveredSince

\* C15: when tween() is called on a handle whose transition is in progress,
\* the new transition starts from the value that transition has reached,
\* its last interpolated value; so an update() at the instant of the call
\* delivers the value delivered before it once more, and every value
\* delivered by the new transition lies between that value and the new
\* target.
C15_RetriggerFromCurrent ==
    /\ [][(/\ ctl.opacityTweener.running
           /\ \E v \in BOOLEAN : ValidPost(v))
          => ctl'.opacityTweener.start = ctl.opacityTweener.current]_vars
    /\ [](DeliveredAfterRetrigger
          => /\ ctl.deliveredAt = ctl.opacityTweener.startTime
                    => ctl.delivered = ctl.atRetrigger
             /\ ctl.delivered >= Min(ctl.atRetrigger,
                                     ctl.opacityTweener.target)
             /\ ctl.delivered <= Max(ctl.atRetrigger,
                                     ctl.opacityTweener.target))

\* A transition from 1 to 0 had reached a value strictly between the two
\* when a POST retriggered it towards 1; the new transition starts from
\* that value, which is neither the start nor the target of the old one,
\* and the update() at that instant has delivered it again.
C15_Witness ==
    /\ DeliveredAfterRetrigger
    /\ ctl.opacityTweener.target = 1000
    /\ ctl.opacityTweener.start \notin {0, 1000}
    /\ ctl.opacityTweener.start = ctl.atRetrigger
    /\ ctl.deliveredAt = ctl.opacityTweener.startTime
    /\ ctl.delivered = ctl.atRetrigger

\* C16: an update() at which the time elapsed since tween() has reached the
\* duration invokes the callback with exactly the target and marks the
\* transition complete; from then on, until tween() is called again,
\* update() neither changes the value nor invokes the callback.
C16_CompletesAtTarget ==
    /\ []((/\ ctl.deliveredSince
            /\ ctl.deliveredAt - ctl.opacityTweener.startTime
                   >= ctl.opacityTweener.duration)
          => /\ ~ctl.opacityTweener.running
             /\ ctl.delivered = ctl.opacityTweener.target
             /\ ctl.opacityTweener.current = ctl.opacityTweener.target)
    /\ [][(/\ ~ctl.opacityTweener.running
           /\ ~ctl'.opacityTweener.running)
          => /\ ctl'.opacityTweener = ctl.opacityTweener
             /\ ctl'.delivered = ctl.delivered
             /\ ctl'.deliveredAt = ctl.deliveredAt]_vars

\* A transition of 2000 ms to another value was completed by the update()
\* made 2000 ms after its start, which delivered the target, and time has
\* passed since.
C16_Witness ==
    /\ ctl.opacityTweener.duration = 2000
    /\ ctl.opacityTweener.start # ctl.opacityTweener.target
    /\ ctl.deliveredSince
    /\ ctl.deliveredAt = ctl.opacityTweener.startTime + 2000
    /\ ctl.delivered = ctl.opacityTweener.target
    /\ ~ctl.opacityTweener.running
    /\ ctl.now > ctl.deliveredAt

\* The calls of setBrightness made by the callback of the opacity tween
\* that are in progress.
CallbackCalls == {t \in Tasks : ctl.by[t] = "callback" /\ InFlight(t)}

\* C19: at most one call of setBrightness made by the callback of the
\* opacity tween is in progress at any time, and the guard flag is set
\* exactly while one is; a callback starts a call only when the flag is
\* clear, and then with the value update() delivers to it in that step,
\* never with one delivered while the flag was set; and the step in which
\* such a call ends, by returning or by throwing, clears the flag, after
\* which a callback can start the next call.
C19_OneCallbackCall ==
    /\ [](/\ Cardinality(CallbackCalls) <= 1
           /\ ctl.currentlySettingBrightness <=> CallbackCalls # {})
    /\ [][\A t \in Tasks :
            (ctl'.by[t] = "callback" /\ ctl.by[t] # "callback")
            => /\ ~ctl.currentlySettingBrightness
               /\ ctl'.currentlySettingBrightness
               /\ task[t].pc = "idle"
               /\ ctl'.deliveredAt = ctl.now
               /\ task'[t].arg = ctl'.delivered]_vars
    /\ [][\A t \in Tasks :
            (ctl.by[t] = "callback" /\ JustEnded(t))
            => ~ctl'.currentlySettingBrightness]_vars

\* In the movie program a call of setBrightness made by the callback has
\* thrown, and a later callback has made the next call, which is in
\* progress.
C19_Witness ==
    \E t, u \in Tasks :
        /\ ctl.by[t] = "callback"
        /\ task[t].pc = "threw"
        /\ ctl.by[u] = "callback"
        /\ InFlight(u)
        /\ ctl.currentlySettingBrightness
        /\ ~ctl.crashed

\* A POST with a valid body is accepted by the movie program in this step.
AcceptsValidPost ==
    /\ ctl.program = "movie"
    /\ HandlesRequest
    /\ ctl'.resp.method = "POST"
    /\ ctl'.resp.body \in {"true", "false"}

\* The timers that fire in this step.
Fired == ctl.timers \ ctl'.timers

\* The calls that start in this step.
StartedCalls == {t \in Tasks : task[t].pc = "idle" /\ task'[t].pc # "idle"}

\* C24: a valid POST sets active, takes a request id that no timer set
\* before it carries, and sets two timers carrying it; nothing else changes
\* active or the current request id or sets a timer.  A timer that fires
\* when a later valid POST has been accepted (the current request id is
\* not its own) starts no call and sends nothing; a timer that fires
\* otherwise starts one call of setBrightness, with 1 when the most recent
\* valid POST set active to true and with 0 when it set it to false, which
\* sends its first request in that step.
C24_SupersededTimersSendNothing ==
    /\ [][AcceptsValidPost
           => /\ ctl'.active = (ctl'.resp.body = "true")
              /\ \A tm \in ctl.timers :
                     tm.reqId # ctl'.currentlySettingBrightnessReqId
              /\ \E due1, due2 \in {ctl.now + 2000, ctl.now + 3000} :
                     /\ due1 # due2
                     /\ ctl'.timers = ctl.timers \cup
                          {[reqId |-> ctl'.currentlySettingBrightnessReqId,
                            due |-> due1],
                           [reqId |-> ctl'.currentlySettingBrightnessReqId,
                            due |-> due2]}
                     /\ Cardinality(ctl'.timers)
                          = Cardinality(ctl.timers) + 2]_vars
    /\ [][(ctl.program = "movie" /\ ~AcceptsValidPost)
           => /\ ctl'.active = ctl.active
              /\ ctl'.currentlySettingBrightnessReqId
                   = ctl.currentlySettingBrightnessReqId
              /\ ctl'.timers \subseteq ctl.timers]_vars
    /\ [][\A tm \in Fired :
            IF tm.reqId # ctl.currentlySettingBrightnessReqId
            THEN task' = task
            ELSE /\ Cardinality(StartedCalls) = 1
                 /\ \A t \in StartedCalls :
                        /\ task'[t].kind = "setBrightness"
                        /\ task'[t].arg = IF ctl.active THEN 1000 ELSE 0
                        /\ task'[t].pc = "req_await"
                        /\ Len(task'[t].sent) = 1
                        /\ ctl'.by[t] = "ensure"]_vars

\* Two valid POSTs were accepted, the second one, {active: false}, while
\* the transition of the first was under way; the four timers have fired,
\* and the two calls of setBrightness in progress are all that they
\* started, both with 0: both timers of the first POST sent nothing.
C24_Witness ==
    /\ ctl.program = "movie"
    /\ ctl.nHttp = 2
    /\ ctl.currentlySettingBrightnessReqId = 2
    /\ ctl.midFlight
    /\ ~ctl.active
    /\ ctl.timers = {}
    /\ \A t \in Tasks :
           /\ ctl.by[t] = "ensure"
           /\ task[t].pc = "req_await"
           /\ task[t].arg = 0

(***************************************************************************)
(* Properties of the movie program and the device (specification           *)
(* SpecSettle).                                                            *)
(***************************************************************************)

\* A POST has been accepted and everything it set going is over: both its
\* timers have fired, the transition is complete, no call is in progress.
\* Nothing changes from here on unless another POST arrives.
AtRest ==
    /\ ctl.currentlySettingBrightnessReqId # 0
    /\ ctl.timers = {}
    /\ ~ctl.opacityTweener.running
    /\ NoCallInProgress
    /\ ~ctl.crashed

\* The device is where the last valid POST wants it: at 100 percent in mode
\* "movie" when active is true, in mode "off" when active is false.
AtTarget ==
    IF ctl.active
    THEN device.mode = "movie" /\ device.brightness = 100
    ELSE device.mode = "off"

\* C23: when everything the last valid POST set going is over, and the
\* device has carried out every request, the device is at the target of
\* that POST: no value of the transition is what it was set to last.
C23_SettlesAtTarget ==
    (AtRest /\ ~device.refused) => AtTarget

\* The program was at rest, switched off (lastBrightness = 0).  After a
\* POST {active: true} both timers have fired and the transition is
\* complete, every request was carried out, the device is in mode "movie",
\* and the brightness it was set to last is a value of the transition.
C23_Witness ==
    /\ AtRest
    /\ ~device.refused
    /\ ctl.active
    /\ ctl.nHttp = 1
    /\ device.mode = "movie"
    /\ device.brightness \in 1..99
    /\ lastBrightness = device.brightness

(***************************************************************************)
(* Properties of the frames (specifications SpecFrame and SpecWide).       *)
(***************************************************************************)
\* The calls of sendFrameFragment made for the n-th frame, in order.
FrameLog(n) == SelectSeq(log, LAMBDA e : e.frameNo = n)

\* C6: sendFrameArray, given a buffer of L bytes, calls sendFrameFragment
\* ceil(L / 900) times, with at most 900 bytes each time, numbered 0, 1, 2,
\* ... in the order of the calls, and the payloads put together in that
\* order are the buffer.
C6_Fragmentation ==
    (frameNo > 0 /\ ~sfa.threw) =>
        LET calls == FrameLog(frameNo)
            L == Len(sfa.frame)
            n == Len(calls)
        IN  /\ 900 * (n - 1) < L
            /\ L <= 900 * n
            /\ \A k \in 1..n :
                   /\ calls[k].fragment = k - 1
                   /\ Len(calls[k].payload) <= 900
                   /\ Len(calls[k].payload) = Min(900, L - 900 * (k - 1))
            /\ \A j \in 1..L :
                   calls[((j - 1) \div 900) + 1].payload[((j - 1) % 900) + 1]
                       = sfa.frame[j]

\* A buffer of 2000 bytes went out as three fragments, the last of 200.
C6_Witness ==
    /\ frameNo > 0
    /\ ~sfa.threw
    /\ Len(sfa.frame) = 2000
    /\ Len(FrameLog(frameNo)) = 3
    /\ Len(FrameLog(frameNo)[3].payload) = 200

\* The fragment-index byte of a datagram: the last byte of its header.
IndexByte(e) == e.data[Len(e.token) + 4]

\* C7, as stated: in every frame the index byte of a datagram is its 0-based
\* position in the frame, so that the index bytes of a frame are pairwise
\* distinct and strictly increasing.
C7_IndexByteIsPosition ==
    \A n \in 1..frameNo :
        LET calls == FrameLog(n)
        IN  \A k \in DOMAIN calls :
                ~calls[k].threw =>
                    /\ IndexByte(calls[k]) = k - 1
                    /\ \A j \in 1..(k - 1) :
                           IndexByte(calls[j]) < IndexByte(calls[k])

\* C7, amended: the index byte of a datagram is its 0-based position in the
\* frame modulo 256; among the first 256 datagrams of a frame it is the
\* position itself, and the index bytes are pairwise distinct and strictly
\* increasing.
C7_IndexByteModulo ==
    \A n \in 1..frameNo :
        LET calls == FrameLog(n)
        IN  \A k \in DOMAIN calls :
                ~calls[k].threw =>
                    /\ IndexByte(calls[k]) = (k - 1) % 256
                    /\ k <= 256 =>
                           /\ IndexByte(calls[k]) = k - 1
                           /\ \A j \in 1..(k - 1) :
                                  IndexByte(calls[j]) < IndexByte(calls[k])

\* A frame of 257 datagrams went out: the last one carries index byte 0, as
\* the first one does.
C7_Witness ==
    \E n \in 1..frameNo :
        LET calls == FrameLog(n)
        IN  /\ Len(calls) = 257
            /\ ~calls[1].threw
            /\ ~calls[257].threw
            /\ IndexByte(calls[1]) = 0
            /\ IndexByte(calls[256]) = 255
            /\ IndexByte(calls[257]) = 0

\* The bytes of one colour in the buffer.
GroupOf(color, perLed) ==
    IF perLed = 3
    THEN <<ToUint8(color.r), ToUint8(color.g), ToUint8(color.b)>>
    ELSE <<ToUint8(WhiteOf(color)), ToUint8(color.r), ToUint8(color.g),
           ToUint8(color.b)>>

\* C8, as stated: for a frame of N colours frameToBytes gives 3N bytes
\* (r, g, b per colour) when bytesPerLed is 3 and 4N bytes (w, r, g, b per
\* colour, w being 0 when the colour has none) when it is 4, whatever N is.
C8_LengthFollowsFrame ==
    (frameNo > 0 /\ bytesPerLed \in {3, 4}) =>
        /\ ~sfa.threw
        /\ Len(sfa.frame) = bytesPerLed * Len(sfa.input)
        /\ \A p \in 1..Len(sfa.input) :
               SubSeq(sfa.frame, (p - 1) * bytesPerLed + 1, p * bytesPerLed)
                   = GroupOf(sfa.input[p], bytesPerLed)

\* C8, amended: frameToBytes gives numberOfLeds * bytesPerLed bytes whatever
\* N is; the group of LED p holds the bytes of colour p of the frame (r, g, b,
\* or w, r, g, b with w being 0 when the colour has none) when the frame has
\* a colour p, and zeros when it has not; colours beyond numberOfLeds are
\* dropped.
C8_LengthFollowsDevice ==
    (frameNo > 0 /\ bytesPerLed \in {3, 4}) =>
        /\ ~sfa.threw
        /\ Len(sfa.frame) = bytesPerLed * numberOfLeds
        /\ \A p \in 1..numberOfLeds :
               SubSeq(sfa.frame, (p - 1) * bytesPerLed + 1, p * bytesPerLed)
                   = IF p <= Len(sfa.input)
                     THEN GroupOf(sfa.input[p], bytesPerLed)
                     ELSE [c \in 1..bytesPerLed |-> 0]

\* A frame one colour short of a 4-byte string went through frameToBytes:
\* the buffer has a group for every LED, the second one with w = 255 from
\* the colour, the third one with w = 0 for a colour without w, the last one
\* all zeros.
C8_Witness ==
    /\ frameNo > 0
    /\ bytesPerLed = 4
    /\ numberOfLeds = 226
    /\ Len(sfa.input) = 225
    /\ "w" \in DOMAIN sfa.input[2]
    /\ "w" \notin DOMAIN sfa.input[3]
    /\ Len(sfa.frame) = 904
    /\ sfa.frame[5] = 255
    /\ sfa.frame[9] = 0
    /\ SubSeq(sfa.frame, 901, 904) = <<0, 0, 0, 0>>

\* C9, as stated: a datagram built by sendFrameFragment for a token buffer
\* of N bytes and a payload of P bytes has N + 4 + P bytes: 0x03, the N bytes
\* of the token buffer of that moment, 0x00, 0x00, the fragment index, and
\* the payload unchanged; it goes to UDP port 7777.
C9_DatagramLayout ==
    \A k \in DOMAIN log :
        ~log[k].threw =>
            LET e == log[k]
                N == Len(e.token)
                P == Len(e.payload)
            IN  /\ Len(e.data) = N + 4 + P
                /\ e.data[1] = 3
                /\ SubSeq(e.data, 2, N + 1) = e.token
                /\ e.data[N + 2] = 0
                /\ e.data[N + 3] = 0
                /\ e.data[N + 4] = e.fragment
                /\ SubSeq(e.data, N + 5, N + 4 + P) = e.payload
                /\ e.port = 7777

\* C9, amended: the same layout, with byte N + 3 (counted from 0) holding
\* the fragment index modulo 256.
C9_DatagramLayoutModulo ==
    \A k \in DOMAIN log :
        ~log[k].threw =>
            LET e == log[k]
                N == Len(e.token)
                P == Len(e.payload)
            IN  /\ Len(e.data) = N + 4 + P
                /\ e.data[1] = 3
                /\ SubSeq(e.data, 2, N + 1) = e.token
                /\ e.data[N + 2] = 0
                /\ e.data[N + 3] = 0
                /\ e.data[N + 4] = e.fragment % 256
                /\ SubSeq(e.data, N + 5, N + 4 + P) = e.payload
                /\ e.port = 7777

\* Two frames went out with a new login between them: the datagrams of the
\* first carry the bytes of the first token, those of the second the bytes
\* of the second token, each with a full payload.
C9_Witness ==
    \E j, k \in DOMAIN log :
        /\ log[j].frameNo = 1
        /\ log[k].frameNo = 2
        /\ ~log[j].threw
        /\ ~log[k].threw
        /\ log[j].token = Atob(DeviceToken(1))
        /\ log[k].token = Atob(DeviceToken(2))
        /\ Len(log[j].token) = 8
        /\ Len(log[k].payload) = 900
        /\ log[k].fragment = 1
        /\ Len(log[k].data) = 912

\* C10: the sends of a frame's fragments are started in ascending order of
\* fragment, frame after frame; whether or not a send has failed, every
\* fragment of every frame sent has been handed to the socket, and exactly
\* once.
C10_SendsInOrderNoRetry ==
    bytesPerLed \in {3, 4} =>
        /\ \A j, k \in DOMAIN log :
               j < k =>
                   \/ log[j].frameNo < log[k].frameNo
                   \/ /\ log[j].frameNo = log[k].frameNo
                      /\ log[j].fragment < log[k].fragment
        /\ \A n \in 1..frameNo :
               LET sends == FrameLog(n)
                   L == numberOfLeds * bytesPerLed
               IN  /\ 900 * (Len(sends) - 1) < L
                   /\ L <= 900 * Len(sends)
                   /\ \A k \in DOMAIN sends : sends[k].fragment = k - 1

\* The send of the first fragment of the first frame has failed; the other
\* fragments of that frame went out, and so did the three of the next frame.
C10_Witness ==
    /\ frameNo = 2
    /\ Len(log) = 6
    /\ log[1].status = "failed"
    /\ log[2].status = "sent"
    /\ log[3].status = "sent"
    /\ Len(FrameLog(2)) = 3
    /\ log[6].status = "sent"

\* The calls of sendFrameFragment made in this step.
NewSends == SubSeq(log', Len(log) + 1, Len(log'))

\* C25: the calls of sendFrameFragment are made in the step of sendFrame
\* and in no other, and that step makes all the calls of its frame, one for
\* every 900 bytes begun, after the calls of every frame handed to
\* sendFrame before, whose record it leaves as it is, their sends settled or
\* not: no call for a frame is made once sendFrame has returned, and so
\* none after a call for a later frame.
C25_FrameSendsStartInOneTurn ==
    /\ [][/\ Len(log') >= Len(log)
           /\ \A k \in DOMAIN log :
                  /\ log'[k].frameNo = log[k].frameNo
                  /\ log'[k].fragment = log[k].fragment
                  /\ log'[k].data = log[k].data
           /\ frameNo' = frameNo => Len(log') = Len(log)]_vars
    /\ [][frameNo' # frameNo
           => /\ frameNo' = frameNo + 1
              /\ SubSeq(log', 1, Len(log)) = log
              /\ Len(NewSends) =
                     IF sfa'.threw THEN 0
                     ELSE (Len(sfa'.frame) + fragmentSize - 1)
                              \div fragmentSize
              /\ \A k \in DOMAIN NewSends :
                     /\ NewSends[k].frameNo = frameNo'
                     /\ NewSends[k].fragment = k - 1
              /\ \A k \in DOMAIN log : log[k].frameNo < frameNo']_vars

\* Two frames of two fragments each have been handed to sendFrame, the
\* second one while no send of the first had settled: the four sends are
\* pending, those of the first frame before those of the second.
C25_Witness ==
    /\ frameNo = 2
    /\ Len(log) = 4
    /\ \A k \in DOMAIN log : log[k].status = "pending"
    /\ log[1].frameNo = 1 /\ log[2].frameNo = 1
    /\ log[3].frameNo = 2 /\ log[4].frameNo = 2
    /\ log[2].fragment = 1 /\ log[4].fragment = 1

\* C11: whenever bytesPerLed is neither 3 nor 4 (the -1 of an object never
\* initialized included), sendFrame throws out of frameToBytes for every
\* frame, the empty one included, and hands no bytes to the socket.
C11_PackingRejectsOtherCounts ==
    (frameNo > 0 /\ bytesPerLed \notin {3, 4}) =>
        /\ sfa.threw
        /\ \A k \in DOMAIN log : log[k].threw

\* The empty frame went to a string of 2 LEDs reporting 5 bytes per LED:
\* frameToBytes did not throw, and one datagram with a payload of 10 zero
\* bytes was handed to the socket.
C11_Witness ==
    /\ frameNo > 0
    /\ bytesPerLed = 5
    /\ numberOfLeds = 2
    /\ sfa.input = <<>>
    /\ ~sfa.threw
    /\ \E k \in DOMAIN log :
           /\ ~log[k].threw
           /\ log[k].payload = <<0, 0, 0, 0, 0, 0, 0, 0, 0, 0>>

(***************************************************************************)
(* Properties of the single-file program (specification SpecLegacy).       *)
(***************************************************************************)
\* The runs of RealtimeTwinkly.init whose login/verify exchange is in flight.
LegacyExchanging == {n \in Runs : legacy.run[n].pc \in {"login", "verify"}}

\* C2: at most one login/verify exchange is in flight, whoever the callers
\* are (startup init, a 401 in req, a keep-alive firing), in either client.
C2_OneExchangeInFlight ==
    /\ Cardinality(Exchanging) <= 1
    /\ Cardinality(LegacyExchanging) <= 1

\* In the single-file program, a keep-alive run has sent its login while the
\* run before it still waits for the answer to its verify.
C2_Witness ==
    \E m, n \in Runs :
        /\ m < n
        /\ legacy.run[m].pc = "verify"
        /\ legacy.run[n].pc = "login"

\* What holds of a keep-alive firing of the single-file program: once it has
\* run to its end it has sent the four requests of init, in order.
LegacyKeepAliveFullInit ==
    \A n \in Runs :
        legacy.run[n].pc = "done" =>
            legacy.run[n].sent = <<"login", "verify", "gestalt", "mode">>

====
